---- MODULE Spec2Model ----
(***************************************************************************)
(* Transcript normalisation of the audio-classifier repository             *)
(* (src/src/transcript_processor.py): repetition collapse, re-chunking,    *)
(* caption extraction and the walk of a directory; and the upload of a     *)
(* page in batches of blocks with its retries                              *)
(* (src/src/notion_integration.py); the pipeline of download, processing   *)
(* and upload, run at once (src/src/workflow_orchestrator.py) and step by  *)
(* step in the web interface (src/streamlit_app.py).  Texts are TLA+       *)
(* strings handled character by character (Len, SubSeq and \o on strings), *)
(* word lists are sequences of strings.  Python indices are 0-based; Slice *)
(* translates them.                                                        *)
(***************************************************************************)
EXTENDS Integers, Sequences, FiniteSets, TLC

VARIABLES
    pc,       \* position in the function being run
    text,     \* the argument `text` of the function being run
    words,    \* remove_repetitive_phrases: words = text.split()
    i,        \* remove_repetitive_phrases: the cursor of the while loop
    result,   \* remove_repetitive_phrases: the words emitted so far
    output,   \* the value returned
    round,    \* 1: first application, 2: the function applied to its own output
    first,    \* the value returned by the first application
    fn,       \* the function called
    words_per_chunk,  \* the argument words_per_chunk of the call
    words_per_line,   \* the argument words_per_line (chars_per_line) of the call
    raised,   \* "none", or the exception the call ended with
    full_text,  \* the cleaning functions: the text handed to repetition collapse
    formatted,  \* process_file: formatted_text
    content_blocks,  \* create_page_in_database: the blocks to upload
    requests,   \* the calls of blocks.children.append made so far
    attempt,    \* _retry_api_call: the loop variable attempt
    input_dir,  \* process_directory: the names of the files in input_dir
    vtt_files,  \* process_directory: the list glob returned
    written,    \* process_directory: the names of the files written to output_dir
    calls,      \* _retry_api_call: how each call of func made so far ended
    delays,     \* _retry_api_call: the seconds slept so far, sleep by sleep
    raw_dir,    \* the names of the files in transcript/raw
    failed_dir, \* the names of the files in transcript/failed
    clean_dir,  \* the names of the files in transcript/clean
    results,    \* run_complete_workflow: results
    raw_file,   \* run_complete_workflow: raw_file, "" for None
    steps,      \* the steps of the pipeline called so far in this run
    session_state,  \* streamlit_app: st.session_state
    panel       \* streamlit_app: what the three status columns last showed

vars == <<pc, text, words, i, result, output, round, first,
          fn, words_per_chunk, words_per_line, raised, full_text, formatted,
          content_blocks, requests, attempt, input_dir, vtt_files, written,
          calls, delays, raw_dir, failed_dir, clean_dir, results, raw_file, steps,
          session_state, panel>>

\* The state of the loop of remove_repetitive_phrases.
scanVars == <<words, i, result, round, first>>

\* The arguments of a call besides text, and how it ended.
callVars == <<fn, words_per_chunk, words_per_line, raised, full_text, formatted>>

\* The state of the callers of the transcript functions: the upload of a page
\* and the walk of a directory.
outerVars ==
    <<content_blocks, requests, attempt, input_dir, vtt_files, written, calls, delays,
      raw_dir, failed_dir, clean_dir, results, raw_file, steps, session_state, panel>>

\* The state of the pipeline from a video to a page: the three directories,
\* the run of the workflow and the session of the web interface.
pipelineVars ==
    <<raw_dir, failed_dir, clean_dir, results, raw_file, steps, session_state, panel>>

\* ------------------------------------------------------------------ bounds

\* Longest generated input of remove_repetitive_phrases, in words.
MaxWords == 7
\* Longest generated input of the formatters, in characters.
MaxChars == 3
\* Largest generated words_per_chunk and words_per_line.
MaxSize == 3
\* Longest generated run of one unit, in units.
MaxRun == 13
\* Longest generated input of the extractor, in pieces.
MaxPieces == 3
\* Most paragraphs of a generated short content of a page.
MaxParagraphs == 3
\* Most batches a generated long content of a page fills.
MaxBatches == 3

\* ------------------------------------------------------- program constants

\* def remove_repetitive_phrases(text, min_phrase_length=3)
min_phrase_length == 3
\* range(min_phrase_length, min(15, len(words) - i))
PhraseRangeStop == 15

\* ------------------------------------------------------- Python primitives

Min2(a, b) == IF a < b THEN a ELSE b

\* s[k] for a 0-based index k.
At(s, k) == SubSeq(s, k + 1, k + 1)

\* s[a:b] for 0 <= a, on strings and on lists.
Slice(s, a, b) == SubSeq(s, a + 1, Min2(b, Len(s)))

\* The characters str.split() and str.strip() treat as whitespace, and \s.
Whitespace == {" ", "\n", "\t"}

\* The characters of the class [.!?].
Terminators == {".", "!", "?"}

\* The least and the greatest member of a non-empty set of integers.
SetMin(S) == CHOOSE x \in S : \A y \in S : x <= y
SetMax(S) == CHOOSE x \in S : \A y \in S : x >= y

\* The j-th smallest member (1-based) of a set of integers.
Nth(S, j) == CHOOSE x \in S : Cardinality({y \in S : y < x}) = j - 1

\* The 0-based positions at which a maximal run of characters of class begins.
RunStarts(s, class) ==
    {k \in 0..(Len(s) - 1) :
        At(s, k) \in class /\ (k = 0 \/ At(s, k - 1) \notin class)}

\* The position after the run of characters of class that begins at k.
RunEnd(s, class, k) ==
    SetMin({e \in (k + 1)..Len(s) : e = Len(s) \/ At(s, e) \notin class})

\* re.split of s on the maximal runs of characters of class: the pieces
\* between the runs, the empty pieces before a leading run and after a
\* trailing run included.
Pieces(s, class) ==
    LET starts == RunStarts(s, class)
        n == Cardinality(starts)
    IN  [j \in 1..(n + 1) |->
            Slice(s,
                  IF j = 1 THEN 0 ELSE RunEnd(s, class, Nth(starts, j - 1)),
                  IF j = n + 1 THEN Len(s) ELSE Nth(starts, j))]

NonEmpty(piece) == piece # ""

\* text.split(): the maximal runs of non-whitespace characters.
Split(s) == SelectSeq(Pieces(s, Whitespace), NonEmpty)

RECURSIVE JoinFrom(_, _, _)
JoinFrom(sep, parts, k) ==
    IF k > Len(parts) THEN ""
    ELSE IF k = Len(parts) THEN parts[k]
    ELSE parts[k] \o sep \o JoinFrom(sep, parts, k + 1)

\* sep.join(parts)
Join(sep, parts) == JoinFrom(sep, parts, 1)

\* s.strip(): from the first to the last character that is not whitespace.
Strip(s) ==
    LET solid == {k \in 0..(Len(s) - 1) : At(s, k) \notin Whitespace}
    IN  IF solid = {} THEN "" ELSE Slice(s, SetMin(solid), SetMax(solid) + 1)

\* re.split(r'[.!?]+', s)
SplitSentences(s) == Pieces(s, Terminators)

\* s.split(c) for a separator c of one character: the pieces between its
\* occurrences, the empty ones included.
SplitOnChar(s, c) ==
    LET found == {k \in 0..(Len(s) - 1) : At(s, k) = c}
        n == Cardinality(found)
    IN  [j \in 1..(n + 1) |->
            Slice(s,
                  IF j = 1 THEN 0 ELSE Nth(found, j - 1) + 1,
                  IF j = n + 1 THEN Len(s) ELSE Nth(found, j))]

\* x in lst
InList(x, lst) == \E k \in 1..Len(lst) : lst[k] = x

\* ------------------------------------------- remove_repetitive_phrases

RECURSIVE Repetitions_CountsFromOne(_, _, _, _, _)
\* Repetitions with the count off by one: the phrase itself counted twice.
Repetitions_CountsFromOne(ws, at, phrase_len, pos, r) ==
    IF /\ pos + phrase_len <= Len(ws)
       /\ Join(" ", Slice(ws, pos, pos + phrase_len))
            = Join(" ", Slice(ws, at, at + phrase_len))
    THEN Repetitions_CountsFromOne(ws, at, phrase_len, pos + phrase_len, r + 1)
    ELSE r + 1

RECURSIVE Repetitions(_, _, _, _, _)
\* The inner while loop: the consecutive copies of words[i:i+phrase_len]
\* counted from pos on, r counted so far.
Repetitions(ws, at, phrase_len, pos, r) ==
    IF /\ pos + phrase_len <= Len(ws)
       /\ Join(" ", Slice(ws, pos, pos + phrase_len))
            = Join(" ", Slice(ws, at, at + phrase_len))
    THEN Repetitions(ws, at, phrase_len, pos + phrase_len, r + 1)
    ELSE r

RECURSIVE BestPhrase_FirstFound(_, _, _, _)
\* BestPhrase that keeps the first repeated phrase it finds, the shortest.
BestPhrase_FirstFound(ws, at, phrase_len, best) ==
    IF phrase_len >= Min2(PhraseRangeStop, Len(ws) - at) THEN best
    ELSE IF at + phrase_len >= Len(ws) THEN best
    ELSE LET repetitions == Repetitions(ws, at, phrase_len, at, 0)
         IN  BestPhrase_FirstFound(ws, at, phrase_len + 1,
                 IF repetitions > 1 /\ best.len = 0
                 THEN [len |-> phrase_len, reps |-> repetitions]
                 ELSE best)

RECURSIVE BestPhrase(_, _, _, _)
\* The for loop over phrase_len, from phrase_len on; best is the record of
\* best_phrase_length and best_repetitions.
BestPhrase(ws, at, phrase_len, best) ==
    IF phrase_len >= Min2(PhraseRangeStop, Len(ws) - at) THEN best
    ELSE IF at + phrase_len >= Len(ws) THEN best
    ELSE LET repetitions == Repetitions(ws, at, phrase_len, at, 0)
         IN  BestPhrase(ws, at, phrase_len + 1,
                 IF repetitions > 1 /\ phrase_len > best.len
                 THEN [len |-> phrase_len, reps |-> repetitions]
                 ELSE best)

NoBest == [len |-> 0, reps |-> 0]

\* BestAt with the search started at phrases of one word.
BestAt_FromOneWord(ws, at) == BestPhrase(ws, at, 1, NoBest)

\* The best phrase found at cursor `at`.
BestAt(ws, at) == BestPhrase(ws, at, min_phrase_length, NoBest)

\* if i + min_phrase_length >= len(words): result.extend(words[i:]); break
AtTail(ws, at) == at + min_phrase_length >= Len(ws)

\* IsHit that asks for three copies of the phrase.
IsHit_NeedsThree(best) == best.len > 0 /\ best.reps > 2

\* if best_phrase_length > 0 and best_repetitions > 1
IsHit(best) == best.len > 0 /\ best.reps > 1

RECURSIVE WordPass(_, _, _)
\* The whole while loop, from cursor `at` with `res` emitted.
WordPass(ws, at, res) ==
    IF at >= Len(ws) THEN res
    ELSE IF AtTail(ws, at) THEN res \o Slice(ws, at, Len(ws))
    ELSE LET best == BestAt(ws, at)
         IN  IF IsHit(best)
             THEN WordPass(ws, at + best.len * best.reps,
                           res \o Slice(ws, at, at + best.len))
             ELSE WordPass(ws, at + 1, Append(res, ws[at + 1]))

\* KeepSentence without the test for a sentence already kept.
KeepSentence_NoDedup(sentence, unique_sentences) == sentence # ""

\* The test of the sentence loop: keep a sentence that is non-empty and new.
KeepSentence(sentence, unique_sentences) ==
    sentence # "" /\ ~InList(sentence, unique_sentences)

RECURSIVE UniqueFrom_Unstripped(_, _, _)
\* UniqueFrom without sentence.strip().
UniqueFrom_Unstripped(sentences, k, unique_sentences) ==
    IF k > Len(sentences) THEN unique_sentences
    ELSE UniqueFrom_Unstripped(sentences, k + 1,
             IF KeepSentence(sentences[k], unique_sentences)
             THEN Append(unique_sentences, sentences[k])
             ELSE unique_sentences)

RECURSIVE UniqueFrom(_, _, _)
\* The for loop over sentences, from the k-th (1-based) on.
UniqueFrom(sentences, k, unique_sentences) ==
    IF k > Len(sentences) THEN unique_sentences
    ELSE LET sentence == Strip(sentences[k])
         IN  UniqueFrom(sentences, k + 1,
                 IF KeepSentence(sentence, unique_sentences)
                 THEN Append(unique_sentences, sentence)
                 ELSE unique_sentences)

\* unique_sentences of the text made of the emitted words.
UniqueSentences(res) == UniqueFrom(SplitSentences(Join(" ", res)), 1, <<>>)

\* ReturnValue without the test for an empty list.
ReturnValue_AlwaysPeriod(unique_sentences) == Join(". ", unique_sentences) \o "."

\* return '. '.join(unique_sentences) + '.' if unique_sentences else ''
ReturnValue(unique_sentences) ==
    IF unique_sentences # <<>> THEN Join(". ", unique_sentences) \o "." ELSE ""

\* The sentence pass and the return, for the words the loop emitted.
SentencePass(res) == ReturnValue(UniqueSentences(res))

\* remove_repetitive_phrases(text) as a function.
remove_repetitive_phrases(t) == SentencePass(WordPass(Split(t), 0, <<>>))

\* ---------------------------------------------------------- detect_language

\* The stand-in for an ideograph of U+4E00..U+9FFF: module text is ASCII.
CJK == {"#"}

\* The number of characters of s that are in set.
CountIn(s, set) == Cardinality({k \in 0..(Len(s) - 1) : At(s, k) \in set})

\* len(re.findall(r'[\\u4e00-\\u9fff]', text))
chinese_chars(t) == CountIn(t, CJK)

\* len(text.replace(' ', ''))
total_chars(t) == Len(t) - CountIn(t, {" "})

\* detect_language with the threshold reached at 0.3 itself.
detect_language_AtLeast(t) ==
    IF total_chars(t) > 0 /\ 10 * chinese_chars(t) >= 3 * total_chars(t)
    THEN "chinese" ELSE "english"

\* chinese_chars / total_chars > 0.3, in integers: the quotient of two
\* lengths is never within rounding of 0.3 unless it is 3/10.
detect_language(t) ==
    IF total_chars(t) > 0 /\ 10 * chinese_chars(t) > 3 * total_chars(t)
    THEN "chinese" ELSE "english"

\* ------------------------------------------------------------- format_text

\* How a call ends: with a value, or with an exception.
Returned(v) == [value |-> v, raised |-> "none"]
Raises(e) == [value |-> "", raised |-> e]

\* range(0, n, step) raises ValueError for step 0, whatever n is.
RangeRaises(step) == step = 0

\* re.sub(r'\s+', ' ', s): every run of whitespace becomes one space.
SubWhitespace(s) == Join(" ", Pieces(s, Whitespace))

\* re.sub(r'\s+', ' ', text).strip()
NormalizeWhitespace(s) == Strip(SubWhitespace(s))

\* words_per_chunk=500 and chars_per_line=50 of the call in format_text.
ChineseWordsPerChunk == 500
ChineseCharsPerLine == 50
\* words_per_chunk=100 and words_per_line=15, the defaults of format_text.
DefaultWordsPerChunk == 100
DefaultWordsPerLine == 15

\* chunk_size with another factor than the 6 of the source.
chunk_size_BySeven(wpc) == wpc * 7

\* chunk_size = words_per_chunk * 6
chunk_size(wpc) == wpc * 6

RECURSIVE ChineseLines(_, _, _, _)
\* The loop over j: the trimmed, non-blank lines of chunk_text.
ChineseLines(chunk_text, j, chars_per_line, formatted_lines) ==
    IF j >= Len(chunk_text) THEN formatted_lines
    ELSE LET line_text == Slice(chunk_text, j, j + chars_per_line)
         IN  ChineseLines(chunk_text, j + chars_per_line, chars_per_line,
                 IF Strip(line_text) # ""
                 THEN Append(formatted_lines, Strip(line_text))
                 ELSE formatted_lines)

RECURSIVE ChineseChunks(_, _, _, _, _)
\* The loop over i: the chunks that hold a line.
ChineseChunks(t, at, size, chars_per_line, chunks) ==
    IF at >= Len(t) THEN chunks
    ELSE LET formatted_lines ==
                 ChineseLines(Slice(t, at, at + size), 0, chars_per_line, <<>>)
         IN  ChineseChunks(t, at + size, size, chars_per_line,
                 IF formatted_lines # <<>>
                 THEN Append(chunks, Join("\n", formatted_lines))
                 ELSE chunks)

\* format_text_chinese(text, words_per_chunk, chars_per_line)
format_text_chinese(t, wpc, chars_per_line) ==
    LET normal == NormalizeWhitespace(t)
    IN  IF RangeRaises(chunk_size(wpc)) THEN Raises("ValueError")
        ELSE IF Len(normal) > 0 /\ RangeRaises(chars_per_line)
        THEN Raises("ValueError")
        ELSE Returned(Join("\n\n",
                 ChineseChunks(normal, 0, chunk_size(wpc), chars_per_line, <<>>)))

\* line_words that loses the last word of a full line.
line_words_OneShort(chunk_words, j, wpl) ==
    Slice(chunk_words, j, IF j + wpl <= Len(chunk_words) THEN j + wpl - 1 ELSE j + wpl)

\* line_words = chunk_words[j:j+words_per_line]
line_words(chunk_words, j, wpl) == Slice(chunk_words, j, j + wpl)

\* chunk_words that runs one word into the next chunk.
chunk_words_OneLong(ws, at, wpc) == Slice(ws, at, at + wpc + 1)

\* chunk_words = words[i:i+words_per_chunk]
chunk_words(ws, at, wpc) == Slice(ws, at, at + wpc)

RECURSIVE EnglishLines(_, _, _, _)
\* The loop over j: the lines of a chunk.
EnglishLines(cw, j, wpl, formatted_lines) ==
    IF j >= Len(cw) THEN formatted_lines
    ELSE EnglishLines(cw, j + wpl, wpl,
             Append(formatted_lines, Join(" ", line_words(cw, j, wpl))))

RECURSIVE EnglishChunks_SkipsWord(_, _, _, _, _)
\* EnglishChunks with a step one too long: a word is lost between chunks.
EnglishChunks_SkipsWord(ws, at, wpc, wpl, chunks) ==
    IF at >= Len(ws) THEN chunks
    ELSE EnglishChunks_SkipsWord(ws, at + wpc + 1, wpc, wpl,
             Append(chunks,
                    Join("\n", EnglishLines(chunk_words(ws, at, wpc), 0, wpl, <<>>))))

RECURSIVE EnglishChunks(_, _, _, _, _)
\* The loop over i: the chunks.
EnglishChunks(ws, at, wpc, wpl, chunks) ==
    IF at >= Len(ws) THEN chunks
    ELSE EnglishChunks(ws, at + wpc, wpc, wpl,
             Append(chunks,
                    Join("\n", EnglishLines(chunk_words(ws, at, wpc), 0, wpl, <<>>))))

\* format_text_english(text, words_per_chunk, words_per_line)
format_text_english(t, wpc, wpl) ==
    LET ws == Split(t)
    IN  IF RangeRaises(wpc) THEN Raises("ValueError")
        ELSE IF Len(ws) > 0 /\ RangeRaises(wpl) THEN Raises("ValueError")
        ELSE Returned(Join("\n\n", EnglishChunks(ws, 0, wpc, wpl, <<>>)))

\* format_text(text, words_per_chunk, words_per_line)
format_text(t, wpc, wpl) ==
    IF detect_language(t) = "chinese"
    THEN format_text_chinese(t, ChineseWordsPerChunk, ChineseCharsPerLine)
    ELSE format_text_english(t, wpc, wpl)

\* --------------------------------------------------------- remove_audio_cues

Digits == {"0", "1", "2", "3", "4", "5", "6", "7", "8", "9"}
UpperLetters == "ABCDEFGHIJKLMNOPQRSTUVWXYZ"
LowerLetters == "abcdefghijklmnopqrstuvwxyz"

\* The characters of a string, as a set.
CharsOf(s) == {At(s, k) : k \in 0..(Len(s) - 1)}

\* The characters \w matches: letters, digits, the underscore, ideographs.
WordChars == CharsOf(UpperLetters) \cup CharsOf(LowerLetters) \cup Digits \cup {"_"} \cup CJK

\* c.lower() for one character.
LowerChar(c) ==
    IF c \in CharsOf(UpperLetters)
    THEN At(LowerLetters, CHOOSE k \in 0..(Len(UpperLetters) - 1) : At(UpperLetters, k) = c)
    ELSE c

\* Equality of two strings under re.IGNORECASE.
EqualsIgnoreCase(a, b) ==
    /\ Len(a) = Len(b)
    /\ \A k \in 0..(Len(a) - 1) : LowerChar(At(a, k)) = LowerChar(At(b, k))

\* \b at position k of s: a word character on exactly one side.
IsBoundary(s, k) ==
    (k > 0 /\ At(s, k - 1) \in WordChars) # (k < Len(s) /\ At(s, k) \in WordChars)

\* The end of the match of open.*?close that begins at k, or -1: the nearest
\* close after k with no line break before it ('.' matches no line break).
SpanEnd(s, k, open, close) ==
    LET ends == {e \in (k + 1)..(Len(s) - 1) :
                    /\ At(s, e) = close
                    /\ \A m \in (k + 1)..(e - 1) : At(s, m) # "\n"}
    IN  IF k < Len(s) /\ At(s, k) = open /\ ends # {} THEN SetMin(ends) + 1 ELSE -1

RECURSIVE RemoveSpans(_, _, _, _)
\* re.sub of open.*?close by '' on s, from position `from` on: the leftmost
\* match is removed and the scan goes on after it.
RemoveSpans(s, from, open, close) ==
    LET starts == {k \in from..(Len(s) - 1) : SpanEnd(s, k, open, close) >= 0}
    IN  IF starts = {} THEN Slice(s, from, Len(s))
        ELSE Slice(s, from, SetMin(starts))
             \o RemoveSpans(s, SpanEnd(s, SetMin(starts), open, close), open, close)

\* music|applause|laughter|cheering|background noise
CueWords == <<"music", "applause", "laughter", "cheering", "background noise">>

\* The alternatives of \b(...)\b that match at position k of s, by index.
CuesAt(s, k) ==
    {c \in 1..Len(CueWords) :
        /\ k + Len(CueWords[c]) <= Len(s)
        /\ EqualsIgnoreCase(Slice(s, k, k + Len(CueWords[c])), CueWords[c])
        /\ IsBoundary(s, k)
        /\ IsBoundary(s, k + Len(CueWords[c]))}

RECURSIVE RemoveCueWords(_, _)
\* re.sub(r'\b(music|...)\b', '', s, flags=re.IGNORECASE) from `from` on; of
\* the alternatives that match at a position the first listed is taken.
RemoveCueWords(s, from) ==
    LET starts == {k \in from..(Len(s) - 1) : CuesAt(s, k) # {}}
    IN  IF starts = {} THEN Slice(s, from, Len(s))
        ELSE LET k == SetMin(starts)
                 cue == CueWords[SetMin(CuesAt(s, k))]
             IN  Slice(s, from, k) \o RemoveCueWords(s, k + Len(cue))

\* remove_audio_cues(text)
remove_audio_cues(t) ==
    LET unbracketed == RemoveSpans(t, 0, "[", "]")
        unparenthesised == RemoveSpans(unbracketed, 0, "(", ")")
    IN  NormalizeWhitespace(RemoveCueWords(unparenthesised, 0))

\* --------------------------------------------------------- clean_plain_text

\* The text clean_plain_text hands to remove_repetitive_phrases.
plain_content(content) == remove_audio_cues(content)

\* clean_plain_text(content)
clean_plain_text(content) == remove_repetitive_phrases(plain_content(content))

\* -------------------------------------------------------- clean_vtt_content

\* The position after the run of digits that begins at k, or -1.
DigitsEnd(s, k) ==
    IF k >= 0 /\ k < Len(s) /\ At(s, k) \in Digits THEN RunEnd(s, Digits, k) ELSE -1

\* The position after the literal lit at k, or -1.
LiteralEnd(s, k, lit) ==
    IF k >= 0 /\ Slice(s, k, k + Len(lit)) = lit THEN k + Len(lit) ELSE -1

\* The position after a match of \d+:\d+:\d+\.\d+ that begins at k, or -1.
\* Each run of digits but the last is followed by a character that is no
\* digit, so it is matched whole; the last is matched as far as it goes.
ClockEnd(s, k) ==
    LET hours == LiteralEnd(s, DigitsEnd(s, k), ":")
        minutes == LiteralEnd(s, DigitsEnd(s, hours), ":")
        seconds == LiteralEnd(s, DigitsEnd(s, minutes), ".")
    IN  DigitsEnd(s, seconds)

\* The end of the line position k lies on: where $ matches under MULTILINE.
LineEnd(s, k) == SetMin({e \in k..Len(s) : e = Len(s) \/ At(s, e) = "\n"})

\* Whether position k begins a line: where ^ matches under MULTILINE.
IsLineStart(s, k) == k = 0 \/ At(s, k - 1) = "\n"

\* The position after the match of timestamp_pattern that begins at k, or -1:
\* two clock times around ' --> ', then the rest of the line.
TimestampEnd(s, k) ==
    LET second == ClockEnd(s, LiteralEnd(s, ClockEnd(s, k), " --> "))
    IN  IF second >= 0 THEN LineEnd(s, second) ELSE -1

RECURSIVE SplitTimestamps(_, _)
\* timestamp_pattern.split(content), from `from` on.
SplitTimestamps(s, from) ==
    LET starts == {k \in from..(Len(s) - 1) : TimestampEnd(s, k) >= 0}
    IN  IF starts = {} THEN <<Slice(s, from, Len(s))>>
        ELSE <<Slice(s, from, SetMin(starts))>>
             \o SplitTimestamps(s, TimestampEnd(s, SetMin(starts)))

\* re.sub(r'^WEBVTT.*?\n\n', '', content, flags=re.DOTALL): content without
\* its start up to the first blank line, when it starts with WEBVTT.
StripHeader(s) ==
    LET blanks == {k \in 6..(Len(s) - 2) : Slice(s, k, k + 2) = "\n\n"}
    IN  IF Slice(s, 0, 6) = "WEBVTT" /\ blanks # {}
        THEN Slice(s, SetMin(blanks) + 2, Len(s)) ELSE s

RECURSIVE RemoveDirectiveLines(_, _, _)
\* re.sub(r'^keyword.*?$', '', s, flags=re.MULTILINE) from `from` on: a line
\* that begins with the keyword is emptied, its line break kept.
RemoveDirectiveLines(s, from, keyword) ==
    LET starts == {k \in from..(Len(s) - 1) :
                      IsLineStart(s, k) /\ Slice(s, k, k + Len(keyword)) = keyword}
    IN  IF starts = {} THEN Slice(s, from, Len(s))
        ELSE Slice(s, from, SetMin(starts))
             \o RemoveDirectiveLines(s, LineEnd(s, SetMin(starts)), keyword)

\* The position after a match of <\d+:\d+:\d+\.\d+> that begins at k, or -1.
\* Here the last run of digits is followed by '>' and is matched whole.
TimeTagEnd(s, k) == LiteralEnd(s, ClockEnd(s, LiteralEnd(s, k, "<")), ">")

RECURSIVE RemoveTimeTags(_, _)
\* re.sub(r'<\d+:\d+:\d+\.\d+>', '', s) from `from` on.
RemoveTimeTags(s, from) ==
    LET starts == {k \in from..(Len(s) - 1) : TimeTagEnd(s, k) >= 0}
    IN  IF starts = {} THEN Slice(s, from, Len(s))
        ELSE Slice(s, from, SetMin(starts))
             \o RemoveTimeTags(s, TimeTagEnd(s, SetMin(starts)))

\* Where the </c> that closes a <c> at k begins, or -1: the nearest </c>
\* after it on the same line.
StyleClose(s, k) ==
    LET closes == {e \in (k + 3)..(Len(s) - 4) :
                      /\ Slice(s, e, e + 4) = "</c>"
                      /\ \A m \in (k + 3)..(e - 1) : At(s, m) # "\n"}
    IN  IF Slice(s, k, k + 3) = "<c>" /\ closes # {} THEN SetMin(closes) ELSE -1

RECURSIVE UnwrapStyle(_, _)
\* re.sub(r'<c>(.*?)</c>', r'\1', s) from `from` on: the tags go, the text
\* between them stays.
UnwrapStyle(s, from) ==
    LET starts == {k \in from..(Len(s) - 1) : StyleClose(s, k) >= 0}
    IN  IF starts = {} THEN Slice(s, from, Len(s))
        ELSE LET k == SetMin(starts)
             IN  Slice(s, from, k) \o Slice(s, k + 3, StyleClose(s, k))
                 \o UnwrapStyle(s, StyleClose(s, k) + 4)

RECURSIVE ReplaceAll(_, _, _, _)
\* s.replace of the literal old by new, from `from` on.
ReplaceAll(s, from, old, new) ==
    LET starts == {k \in from..(Len(s) - Len(old)) : Slice(s, k, k + Len(old)) = old}
    IN  IF starts = {} THEN Slice(s, from, Len(s))
        ELSE Slice(s, from, SetMin(starts)) \o new
             \o ReplaceAll(s, SetMin(starts) + Len(old), old, new)

\* ' '.join([line.strip() for line in segment.split('\n') if line.strip()])
JoinLines(segment) ==
    LET lines == SplitOnChar(segment, "\n")
        stripped == [k \in 1..Len(lines) |-> Strip(lines[k])]
    IN  Join(" ", SelectSeq(stripped, NonEmpty))

\* The body of the loop over segments: the clean text of one segment.
clean_segment(segment) ==
    LET unaligned == RemoveDirectiveLines(segment, 0, "align:")
        unpositioned == RemoveDirectiveLines(unaligned, 0, "position:")
        untimed == RemoveTimeTags(unpositioned, 0)
        unstyled == UnwrapStyle(untimed, 0)
        unescaped == ReplaceAll(unstyled, 0, "&gt;", ">")
    IN  JoinLines(remove_audio_cues(unescaped))

\* segments = [s.strip() for s in segments if s.strip()]
vtt_segments(content) ==
    LET parts == SplitTimestamps(StripHeader(content), 0)
        stripped == [k \in 1..Len(parts) |-> Strip(parts[k])]
    IN  SelectSeq(stripped, NonEmpty)

\* clean_texts: the clean text of every segment that has one.
clean_texts(content) ==
    LET segments == vtt_segments(content)
        cleaned == [k \in 1..Len(segments) |-> clean_segment(segments[k])]
    IN  SelectSeq(cleaned, NonEmpty)

\* full_text, after the final audio cue cleanup.
vtt_full_text(content) ==
    remove_audio_cues(NormalizeWhitespace(Join(" ", clean_texts(content))))

\* clean_vtt_content(content)
clean_vtt_content(content) == remove_repetitive_phrases(vtt_full_text(content))

\* -------------------------------------------------------------- the inputs

\* The words the generated inputs are made of.
Vocabulary == {"a", "b", "a?!"}

RECURSIVE WordLists(_)
WordLists(n) ==
    IF n = 0 THEN {<<>>}
    ELSE LET shorter == WordLists(n - 1)
         IN  shorter \cup
             {Append(ws, w) : ws \in {x \in shorter : Len(x) = n - 1}, w \in Vocabulary}

\* The input of scenario 2 of the specification.
TestText == "test test test test test test"

\* The words w1 ... wn, all different.
Numbers(n) == [k \in 1..n |-> "w" \o ToString(k)]

\* Inputs in which phrases of several lengths are repeated at one position,
\* and inputs with a repeated phrase of the longest length searched, of one
\* word more, and of the longest length with no word after the repeat.
PolicyInputs ==
    {"a a a a a a a a", "a a a a a a a a a", "a b a b a b a b a b a b",
     "a b a b a b a b a b a b c", "x a b c a b c a b c a b c a b c a b c y z"}
    \cup {Join(" ", Numbers(L) \o Numbers(L) \o tail) :
             L \in (PhraseRangeStop - 2)..PhraseRangeStop, tail \in {<<>>, <<"z">>}}

\* Inputs with sentences that differ in letter case, in a comma or in their
\* terminator only, and with a sentence that comes back after another one.
SentenceInputs ==
    {"Hi there. hi there.", "Hi, there. Hi there.", "Hi there! Hi there?",
     "Really? Really.", "a b. c. a b.", "yes. no. yes. no. yes"}

CollapseInputs ==
    {Join(" ", ws) : ws \in WordLists(MaxWords)} \cup {TestText} \cup PolicyInputs
    \cup SentenceInputs


\* The characters the generated inputs of the formatters are made of.
FormatAlphabet == {"a", "b", " ", "#"}

RECURSIVE Strings(_, _)
\* The strings over alphabet of at most n characters.
Strings(alphabet, n) ==
    IF n = 0 THEN {""}
    ELSE LET shorter == Strings(alphabet, n - 1)
         IN  shorter \cup
             {t \o c : t \in {x \in shorter : Len(x) = n - 1}, c \in alphabet}

RECURSIVE Repeat(_, _)
\* n copies of the string c.
Repeat(c, n) ==
    IF n = 0 THEN ""
    ELSE LET half == Repeat(c, n \div 2)
         IN  half \o half \o (IF n % 2 = 1 THEN c ELSE "")

Call(f, t, wpc, wpl) ==
    [fn |-> f, text |-> t, words_per_chunk |-> wpc, words_per_line |-> wpl]

\* Scenario 3 of the specification.
WordScenario == Call("format_text_english", "a b c d e", 2, 1)
\* Scenario 4 of the specification.
ChineseScenario == Call("format_text_chinese", Repeat("#", 120), 50, 10)
\* A cleaned text of one word that is one ideograph longer than a line.
LongWordScenario ==
    Call("format_text", Repeat("#", ChineseCharsPerLine + 1) \o ".",
         DefaultWordsPerChunk, DefaultWordsPerLine)

FormatFunctions == {"format_text", "format_text_english", "format_text_chinese"}

\* Texts with line breaks and tabs, added to the generated ones.
BrokenTexts == {"a\nb", "#\t\n#", " \n", "a b\n\n#"}

\* Texts long enough for several chunks of character mode: runs of a unit.
RunUnits == {"#", "# ", "#a ", "a b "}
LongTexts == {Repeat(u, n) : u \in RunUnits, n \in 0..MaxRun}

FormatTexts == Strings(FormatAlphabet, MaxChars) \cup BrokenTexts \cup LongTexts

\* Texts at, just above and just below 3 ideographs in 10 characters that
\* are no space, with spaces, and with a line break that counts.
DensityTexts ==
    {"###aaaaaaa", "# # # a a a a a a a", "####aaaaaaaaa", "###aaaaaa",
     "###aaaaaa ", "###aaaaaa\n", "######aaaaaaaaaaaaaa", "   "}

\* The calls of detect_language: it takes the text alone.
DetectCalls == {Call("detect_language", t, 0, 0) : t \in FormatTexts \cup DensityTexts}

FormatCalls ==
    {Call(f, t, wpc, wpl) : f \in FormatFunctions, t \in FormatTexts,
                            wpc \in 0..MaxSize, wpl \in 0..MaxSize}
    \cup {WordScenario, ChineseScenario, LongWordScenario}
    \cup DetectCalls

\* The pieces the generated inputs of the extractor are made of.
ExtractPieces == {"0:0:1.0 --> 0:0:2.0\n", "[", "]", "(", ")", "Music", "hi", " ", "\n"}

RECURSIVE Concatenations(_, _)
\* The concatenations of at most n members of pieces.
Concatenations(pieces, n) ==
    IF n = 0 THEN {""}
    ELSE LET shorter == Concatenations(pieces, n - 1)
         IN  shorter \cup {t \o piece : t \in shorter, piece \in pieces}

\* The input of scenario 1 of the specification.
CaptionScenario ==
    "00:00:00.000 --> 00:00:02.000\n[Music]\nHello hello hello world\n\n"
    \o "00:00:02.000 --> 00:00:04.000\nHello hello hello world"

\* Inputs that hold nothing but cues and punctuation.
CueOnlyInputs ==
    {"", "[Music]", "(applause)", "music", "[Music] (applause) LAUGHTER",
     "Background Noise.", "..."}

\* Timed captions that hold nothing but a header, markers and cues.
CueOnlyCaptions ==
    {"WEBVTT\n\n0:0:1.0 --> 0:0:2.0\n[Music]\n", "0:0:1.0 --> 0:0:2.0 align:start",
     "WEBVTT\nKind: captions\n\n"}

\* Inputs with a header, markup, directives, malformed markers and a word of
\* ideographs one longer than a line of character mode.
MarkupInputs ==
    {CaptionScenario,
     "WEBVTT\nKind: captions\n\n0:0:1.0 --> 0:0:2.0\nhi <c>there</c>\n",
     "0:0:1.0 --> 0:0:2.0\nalign:start\nhi<0:0:1.5> a &gt; b\nposition:10%",
     "0:0:1.0 -> 0:0:2.0\nhi there", "0:0:1 --> 0:0:2\nhi. hi. there",
     "hi there hi there. music hi", "a b c a b c d",
     Repeat("#", ChineseCharsPerLine + 1)}

\* Inputs with bare cue words, in several letter cases, inside other words
\* and around one another, and with tabs and runs of whitespace.
CueInputs ==
    {"MUSIC and Applause", "musical hi", "background music noise",
     "0:0:1.0 --> 0:0:2.0\nbackground background music noise noise",
     "hi\tthere\n\n hi  a.  b \t"}

\* Inputs with words between an opening and a closing delimiter that lie on
\* different lines, of a plain text, of one segment and of two segments.
SpanInputs ==
    {"[a\nhi there\nb]", "hi (\nhi\n) there",
     "0:0:1.0 --> 0:0:2.0\n[a\nhi there\nb]",
     "0:0:1.0 --> 0:0:2.0\nhi [\n0:0:2.0 --> 0:0:3.0\nthere ] hi",
     "0:0:1.0 --> 0:0:2.0\nhi (\n0:0:2.0 --> 0:0:3.0\na\n0:0:3.0 --> 0:0:4.0\n) there"}

ExtractInputs ==
    Concatenations(ExtractPieces, MaxPieces)
    \cup CueOnlyInputs \cup CueOnlyCaptions \cup MarkupInputs \cup CueInputs
    \cup SpanInputs

\* The words_per_chunk process_file is called with: its default and small ones.
ProcessSizes == {0, 1, DefaultWordsPerChunk}

\* ------------------------------------------------------------- the actions

\* results as run_complete_workflow first sets it and as the web interface
\* records a failed download: no step has succeeded.
NoStepSucceeded == [download |-> FALSE, process |-> FALSE, upload |-> FALSE]

\* st.session_state.results = None: no results are recorded.
NoResults == [recorded |-> FALSE, steps |-> NoStepSucceeded]

\* The session state as the top of streamlit_app.py initialises it; the keys
\* download_results and process_results are not there yet (present = FALSE).
InitialSession ==
    [processing |-> FALSE,
     results |-> NoResults,
     current_step |-> "None",
     progress_messages |-> <<>>,
     youtube_url_value |-> "",
     previous_url |-> "",
     download_results |-> [present |-> FALSE, success |-> FALSE, file |-> ""],
     process_results |-> [present |-> FALSE, success |-> FALSE, clean_file |-> ""]]

\* Nothing is shown in the three status columns.
NoPanel == <<"", "", "">>

\* No pipeline is run.
PipelineIdle ==
    /\ raw_dir = {}
    /\ failed_dir = {}
    /\ clean_dir = {}
    /\ results = NoStepSucceeded
    /\ raw_file = ""
    /\ steps = <<>>
    /\ session_state = InitialSession
    /\ panel = NoPanel

\* No page is being uploaded and no directory walked.
OuterIdle ==
    /\ content_blocks = <<>>
    /\ requests = <<>>
    /\ attempt = 0
    /\ input_dir = {}
    /\ vtt_files = <<>>
    /\ written = {}
    /\ calls = <<>>
    /\ delays = <<>>
    /\ PipelineIdle

InitCollapse ==
    /\ pc = "start"
    /\ OuterIdle
    /\ text \in CollapseInputs
    /\ words = <<>>
    /\ i = 0
    /\ result = <<>>
    /\ output = ""
    /\ round = 1
    /\ first = ""
    /\ fn = "remove_repetitive_phrases"
    /\ words_per_chunk = 0
    /\ words_per_line = 0
    /\ raised = "none"
    /\ full_text = ""
    /\ formatted = ""

\* words = text.split(); result = []; i = 0
SplitWords ==
    /\ pc = "start"
    /\ words' = Split(text)
    /\ i' = 0
    /\ result' = <<>>
    /\ pc' = "scan"
    /\ UNCHANGED <<text, output, round, first>>
    /\ UNCHANGED callVars
    /\ UNCHANGED outerVars

\* An iteration that ends the loop: the rest is too short to hold a repeat.
ScanTail ==
    /\ pc = "scan"
    /\ i < Len(words)
    /\ AtTail(words, i)
    /\ result' = result \o Slice(words, i, Len(words))
    /\ pc' = "sentences"
    /\ UNCHANGED <<text, words, i, output, round, first>>
    /\ UNCHANGED callVars
    /\ UNCHANGED outerVars

\* An iteration that finds a repeated phrase: one copy, skip the repeats.
ScanCollapse ==
    /\ pc = "scan"
    /\ i < Len(words)
    /\ ~AtTail(words, i)
    /\ LET best == BestAt(words, i)
       IN  /\ IsHit(best)
           /\ result' = result \o Slice(words, i, i + best.len)
           /\ i' = i + best.len * best.reps
    /\ UNCHANGED <<pc, text, words, output, round, first>>
    /\ UNCHANGED callVars
    /\ UNCHANGED outerVars

\* An iteration that finds none: the current word, one step forward.
ScanEmit ==
    /\ pc = "scan"
    /\ i < Len(words)
    /\ ~AtTail(words, i)
    /\ ~IsHit(BestAt(words, i))
    /\ result' = Append(result, words[i + 1])
    /\ i' = i + 1
    /\ UNCHANGED <<pc, text, words, output, round, first>>
    /\ UNCHANGED callVars
    /\ UNCHANGED outerVars

\* The loop is over (by its condition or by break): the sentence pass, return.
DedupSentences ==
    /\ \/ pc = "sentences"
       \/ pc = "scan" /\ i >= Len(words)
    /\ output' = SentencePass(result)
    /\ pc' = "done"
    /\ UNCHANGED <<text, words, i, result, round, first>>
    /\ UNCHANGED callVars
    /\ UNCHANGED outerVars

\* The function is applied once more, to the value it returned.
Reapply ==
    /\ pc = "done"
    /\ round = 1
    /\ first' = output
    /\ text' = output
    /\ round' = 2
    /\ pc' = "start"
    /\ UNCHANGED <<words, i, result, output>>
    /\ UNCHANGED callVars
    /\ UNCHANGED outerVars

NextCollapse ==
    \/ SplitWords
    \/ ScanTail
    \/ ScanCollapse
    \/ ScanEmit
    \/ DedupSentences
    \/ Reapply

SpecCollapse == InitCollapse /\ [][NextCollapse]_vars

\* ------------------------------------------------ the calls of a formatter

InitFormat ==
    /\ pc = "start"
    /\ OuterIdle
    /\ \E c \in FormatCalls :
           /\ fn = c.fn
           /\ text = c.text
           /\ words_per_chunk = c.words_per_chunk
           /\ words_per_line = c.words_per_line
    /\ output = ""
    /\ raised = "none"
    /\ full_text = ""
    /\ formatted = ""
    /\ words = <<>>
    /\ i = 0
    /\ result = <<>>
    /\ round = 1
    /\ first = ""

\* The call ends as `outcome` says.
Finish(outcome) ==
    /\ output' = outcome.value
    /\ raised' = outcome.raised
    /\ pc' = "done"
    /\ UNCHANGED <<text, fn, words_per_chunk, words_per_line, full_text, formatted>>
    /\ UNCHANGED scanVars
    /\ UNCHANGED outerVars

CallFormatText ==
    /\ pc = "start"
    /\ fn = "format_text"
    /\ Finish(format_text(text, words_per_chunk, words_per_line))

CallFormatEnglish ==
    /\ pc = "start"
    /\ fn = "format_text_english"
    /\ Finish(format_text_english(text, words_per_chunk, words_per_line))

CallFormatChinese ==
    /\ pc = "start"
    /\ fn = "format_text_chinese"
    /\ Finish(format_text_chinese(text, words_per_chunk, words_per_line))

CallDetectLanguage ==
    /\ pc = "start"
    /\ fn = "detect_language"
    /\ Finish(Returned(detect_language(text)))

NextFormat ==
    \/ CallDetectLanguage
    \/ CallFormatText
    \/ CallFormatEnglish
    \/ CallFormatChinese

SpecFormat == InitFormat /\ [][NextFormat]_vars

\* ------------------------------------------------------------ process_file

InitExtract ==
    /\ pc = "start"
    /\ OuterIdle
    /\ fn \in {"clean_vtt_content", "clean_plain_text"}
    /\ text \in ExtractInputs
    /\ words_per_chunk = DefaultWordsPerChunk
    /\ words_per_line = DefaultWordsPerLine
    /\ output = ""
    /\ full_text = ""
    /\ formatted = ""
    /\ raised = "none"
    /\ words = <<>>
    /\ i = 0
    /\ result = <<>>
    /\ round = 1
    /\ first = ""

\* cleaned_content = clean_vtt_content(content), for a .vtt file
CleanVtt ==
    /\ pc = "start"
    /\ fn = "clean_vtt_content"
    /\ full_text' = vtt_full_text(text)
    /\ output' = remove_repetitive_phrases(full_text')
    /\ pc' = "cleaned"
    /\ UNCHANGED <<text, fn, words_per_chunk, words_per_line, raised, formatted>>
    /\ UNCHANGED scanVars
    /\ UNCHANGED outerVars

\* cleaned_content = clean_plain_text(content.strip()), for any other file
CleanPlain ==
    /\ pc = "start"
    /\ fn = "clean_plain_text"
    /\ full_text' = plain_content(Strip(text))
    /\ output' = remove_repetitive_phrases(full_text')
    /\ pc' = "cleaned"
    /\ UNCHANGED <<text, fn, words_per_chunk, words_per_line, raised, formatted>>
    /\ UNCHANGED scanVars
    /\ UNCHANGED outerVars

\* formatted_text = format_text(cleaned_content, words_per_chunk); the
\* words_per_chunk process_file was called with is drawn where it is read.
FormatCleaned ==
    /\ pc = "cleaned"
    /\ \E size \in ProcessSizes :
           LET outcome == format_text(output, size, words_per_line)
           IN  /\ words_per_chunk' = size
               /\ formatted' = outcome.value
               /\ raised' = outcome.raised
    /\ pc' = "done"
    /\ UNCHANGED <<text, fn, words_per_line, output, full_text>>
    /\ UNCHANGED scanVars
    /\ UNCHANGED outerVars

NextExtract ==
    \/ CleanVtt
    \/ CleanPlain
    \/ FormatCleaned

SpecExtract == InitExtract /\ [][NextExtract]_vars

\* ------------------------------------ notion_integration: the upload of a page

\* batch_size = 90  # Use 90 to be safe
batch_size == 90
\* "Notion limit is 100 blocks per request"
BlockLimit == 100
\* max_retries = 3
max_retries == 3
\* if len(text) > 1900; break_point = 1900
ParagraphLimit == 1900
\* range(1900, max(1700, 0), -1)
BreakFloor == 1700

\* The characters a long paragraph is broken after; '~' stands for the four
\* full-width marks of the source, which module text cannot hold.
BreakChars == {" ", ",", ".", "~", "\n"}

\* The positions at which content.split('\n\n') finds its separator: two line
\* breaks, an even number of line breaks into their run.
ParagraphBreaks(content) ==
    LET runs == RunStarts(content, {"\n"})
    IN  {k \in 0..(Len(content) - 2) :
            /\ At(content, k) = "\n"
            /\ At(content, k + 1) = "\n"
            /\ (k - SetMax({b \in runs : b <= k})) % 2 = 0}

RECURSIVE SplitBetween(_, _, _, _)
\* The pieces of content[a:b] between the separators `breaks`, halving the
\* range at the separator nearest to its middle.
SplitBetween(content, breaks, a, b) ==
    LET inside == {k \in breaks : a <= k /\ k + 2 <= b}
    IN  IF inside = {} THEN <<Slice(content, a, b)>>
        ELSE LET below == {k \in inside : 2 * k <= a + b}
                 m == IF below # {} THEN SetMax(below) ELSE SetMin(inside)
             IN  SplitBetween(content, breaks, a, m)
                 \o SplitBetween(content, breaks, m + 2, b)

\* paragraphs = content.split('\n\n')
SplitParagraphs(content) ==
    SplitBetween(content, ParagraphBreaks(content), 0, Len(content))

\* The loop that looks backwards from 1900 for a break point.
break_point(t) ==
    LET found == {k \in (BreakFloor + 1)..ParagraphLimit :
                     k < Len(t) /\ At(t, k) \in BreakChars}
    IN  IF found = {} THEN ParagraphLimit ELSE SetMax(found) + 1

RECURSIVE LongChunks(_, _)
\* while len(text) > 1900: ...; if text: chunks.append(text)
LongChunks(t, chunks) ==
    IF Len(t) > ParagraphLimit
    THEN LongChunks(Strip(Slice(t, break_point(t), Len(t))),
                    Append(chunks, Strip(Slice(t, 0, break_point(t)))))
    ELSE IF t # "" THEN Append(chunks, t) ELSE chunks

\* _create_paragraph_block(text)
create_paragraph_block(t) == [type |-> "paragraph", content |-> t]

\* The blocks of one paragraph: none if it is blank, one if it is short,
\* one for every non-empty chunk if it is long.
ParagraphBlocks(paragraph) ==
    LET t == Strip(paragraph)
    IN  IF t = "" THEN <<>>
        ELSE IF Len(t) > ParagraphLimit
        THEN LET chunks == SelectSeq(LongChunks(t, <<>>), NonEmpty)
             IN  [k \in 1..Len(chunks) |-> create_paragraph_block(chunks[k])]
        ELSE <<create_paragraph_block(t)>>

RECURSIVE BlocksBetween(_, _, _)
\* The blocks of paragraphs lo..hi, in order.
BlocksBetween(paragraphs, lo, hi) ==
    IF lo > hi THEN <<>>
    ELSE IF lo = hi THEN ParagraphBlocks(paragraphs[lo])
    ELSE BlocksBetween(paragraphs, lo, (lo + hi) \div 2)
         \o BlocksBetween(paragraphs, (lo + hi) \div 2 + 1, hi)

\* _create_content_blocks(content): a heading, the paragraphs, a divider and
\* the notes paragraph (its text is given without its leading pictograph).
create_content_blocks(content) ==
    LET paragraphs == SplitParagraphs(content)
    IN  <<[type |-> "heading_2", content |-> "Transcript Content"]>>
        \o BlocksBetween(paragraphs, 1, Len(paragraphs))
        \o <<[type |-> "divider", content |-> ""],
             create_paragraph_block("Add your notes here...")>>

\* batch with one block more than batch_size.
batch_OneMore(blocks, at) == Slice(blocks, at, at + batch_size + 1)

\* batch = content_blocks[i:i + batch_size]
batch(blocks, at) == Slice(blocks, at, at + batch_size)

RECURSIVE Numbered(_, _)
\* The paragraphs "lo", ..., "hi", a blank line between two of them.
Numbered(lo, hi) ==
    IF lo > hi THEN ""
    ELSE IF lo = hi THEN ToString(lo)
    ELSE Numbered(lo, (lo + hi) \div 2) \o "\n\n" \o Numbered((lo + hi) \div 2 + 1, hi)

\* The numbers of paragraphs of the long contents: with the three fixed
\* blocks they fill one, two and three batches to the brim and around it.
ParagraphCounts ==
    {k * batch_size - 3 + d : k \in 1..MaxBatches, d \in {-1, 0, 1}}

\* Contents of one paragraph longer than ParagraphLimit: with no place to
\* break it, with a space and with a period at the limit and just before
\* it, with a space well before the limit, and one of several chunks.
LongParagraphs ==
    {Repeat("a", ParagraphLimit + 1),
     Repeat("a", ParagraphLimit) \o " b",
     Repeat("a", ParagraphLimit) \o ".b",
     Repeat("a", ParagraphLimit - 1) \o ".b c",
     Repeat("a", BreakFloor + 100) \o " " \o Repeat("b", ParagraphLimit - BreakFloor),
     Repeat("a", ParagraphLimit) \o "," \o Repeat("b", ParagraphLimit) \o " "
         \o Repeat("c", ParagraphLimit + 1)}

\* The contents uploaded: short ones, with blank paragraphs and odd runs of
\* line breaks, ones of many paragraphs and ones of a long paragraph.
UploadContents ==
    {Numbered(1, p) : p \in 0..MaxParagraphs}
    \cup {"a\n\n\n\nb", "a\n\n\nb\n\n", "\n\n \n\na b\nc"}
    \cup {Numbered(1, p) : p \in ParagraphCounts}
    \cup LongParagraphs

InitUpload ==
    /\ pc = "start"
    /\ fn = "create_page_in_database"
    /\ text \in UploadContents
    /\ content_blocks = <<>>
    /\ requests = <<>>
    /\ attempt = 0
    /\ i = 0
    /\ output = ""
    /\ raised = "none"
    /\ input_dir = {}
    /\ vtt_files = <<>>
    /\ written = {}
    /\ calls = <<>>
    /\ delays = <<>>
    /\ PipelineIdle
    /\ words = <<>>
    /\ result = <<>>
    /\ round = 1
    /\ first = ""
    /\ words_per_chunk = 0
    /\ words_per_line = 0
    /\ full_text = ""
    /\ formatted = ""

\* What create_page_in_database leaves alone, whatever it does.
uploadFrame ==
    <<text, fn, raised, words, result, round, first, words_per_chunk,
      words_per_line, full_text, formatted, input_dir, vtt_files, written,
      calls, delays, pipelineVars>>

\* The properties are built; pages.create is handed to _retry_api_call.
PrepareProperties ==
    /\ pc = "start"
    /\ fn = "create_page_in_database"
    /\ pc' = "create"
    /\ attempt' = 0
    /\ UNCHANGED <<i, output, content_blocks, requests>>
    /\ UNCHANGED uploadFrame

\* A call is being made through _retry_api_call: pages.create, or
\* blocks.children.append inside the loop over the batches.
CallUnderWay ==
    \/ pc = "create"
    \/ pc = "append" /\ i < Len(content_blocks)

\* The requests with the call under way added, if it is an append.
Logged(ok) ==
    IF pc = "append"
    THEN Append(requests, [children |-> batch(content_blocks, i), ok |-> ok])
    ELSE requests

\* The call fails with a timeout or connection error: one more attempt if
\* fewer than max_retries were made, else the error leaves the function
\* through `except Exception`, which returns (False, None, None).
CallTimesOut ==
    /\ CallUnderWay
    /\ requests' = Logged(FALSE)
    /\ IF attempt < max_retries - 1
       THEN /\ attempt' = attempt + 1
            /\ UNCHANGED <<pc, output>>
       ELSE /\ pc' = "done"
            /\ output' = "False"
            /\ UNCHANGED attempt
    /\ UNCHANGED <<i, content_blocks>>
    /\ UNCHANGED uploadFrame

\* The call fails with any other error: raised again at once, (False, ...).
CallFails ==
    /\ CallUnderWay
    /\ requests' = Logged(FALSE)
    /\ pc' = "done"
    /\ output' = "False"
    /\ UNCHANGED <<i, content_blocks, attempt>>
    /\ UNCHANGED uploadFrame

\* pages.create returns: the content blocks are made, the loop begins.
PageCreated ==
    /\ pc = "create"
    /\ content_blocks' = create_content_blocks(text)
    /\ i' = 0
    /\ attempt' = 0
    /\ pc' = "append"
    /\ UNCHANGED <<output, requests>>
    /\ UNCHANGED uploadFrame

\* blocks.children.append returns: the next batch.
BatchAppended ==
    /\ pc = "append"
    /\ i < Len(content_blocks)
    /\ requests' = Logged(TRUE)
    /\ i' = i + batch_size
    /\ attempt' = 0
    /\ UNCHANGED <<pc, output, content_blocks>>
    /\ UNCHANGED uploadFrame

\* The loop is over: return True, page_url, page_id
ReturnPage ==
    /\ pc = "append"
    /\ i >= Len(content_blocks)
    /\ output' = "True"
    /\ pc' = "done"
    /\ UNCHANGED <<i, content_blocks, requests, attempt>>
    /\ UNCHANGED uploadFrame

NextUpload ==
    \/ PrepareProperties
    \/ CallTimesOut
    \/ CallFails
    \/ PageCreated
    \/ BatchAppended
    \/ ReturnPage

SpecUpload == InitUpload /\ [][NextUpload]_vars

\* ----------------------------------------- notion_integration: _retry_api_call

\* base_delay = 1  # Start with 1 second delay
base_delay == 1

RECURSIVE Lower(_)
\* s.lower()
Lower(s) == IF s = "" THEN "" ELSE LowerChar(At(s, 0)) \o Lower(Slice(s, 1, Len(s)))

\* ['timeout', 'timed out', 'connection', 'read timeout']
TimeoutKeywords == {"timeout", "timed out", "connection", "read timeout"}

\* is_timeout = any(keyword in error_msg for keyword in [...]), where
\* error_msg = str(e).lower()
is_timeout(e) ==
    LET error_msg == Lower(e.message)
    IN  \E keyword \in TimeoutKeywords :
            \E k \in 0..(Len(error_msg) - Len(keyword)) :
                Slice(error_msg, k, k + Len(keyword)) = keyword

\* delay that is twice the delay of the source.
delay_Doubled(n) == base_delay * 2 ^ (n + 1)

\* delay = base_delay * (2 ** attempt)
delay(n) == base_delay * 2 ^ n

\* The call of func returned.
Success == [ok |-> TRUE, type |-> "", message |-> ""]

\* The call of func raised an exception of the type, with the message.
Failure(type, message) == [ok |-> FALSE, type |-> type, message |-> message]

\* The types of the timeout and connection errors of requests.exceptions.
TimeoutTypes == {"Timeout", "ReadTimeout", "ConnectionError"}

\* The exceptions func raises: timeout and connection errors whose message
\* names them and ones whose message does not, and other errors whose
\* message holds none of the keywords and ones whose message does.
Errors ==
    {Failure("Timeout", "Request timed out"),
     Failure("ReadTimeout", "Read Timeout."),
     Failure("ConnectionError", "Connection refused"),
     Failure("ConnectionError", "Name or service not known"),
     Failure("Timeout", ""),
     Failure("APIResponseError", "Invalid request URL."),
     Failure("ValueError", "Unknown connection id")}

InitRetry ==
    /\ pc = "start"
    /\ fn = "_retry_api_call"
    /\ attempt = 0
    /\ calls = <<>>
    /\ delays = <<>>
    /\ PipelineIdle
    /\ output = ""
    /\ raised = "none"
    /\ text = ""
    /\ content_blocks = <<>>
    /\ requests = <<>>
    /\ input_dir = {}
    /\ vtt_files = <<>>
    /\ written = {}
    /\ i = 0
    /\ words = <<>>
    /\ result = <<>>
    /\ round = 1
    /\ first = ""
    /\ words_per_chunk = 0
    /\ words_per_line = 0
    /\ full_text = ""
    /\ formatted = ""

\* What _retry_api_call leaves alone, whatever it does.
retryFrame ==
    <<text, fn, words, i, result, round, first, words_per_chunk, words_per_line,
      full_text, formatted, content_blocks, requests, input_dir, vtt_files, written,
      pipelineVars>>

\* for attempt in range(max_retries): the first iteration begins.
EnterLoop ==
    /\ pc = "start"
    /\ fn = "_retry_api_call"
    /\ attempt' = 0
    /\ pc' = "call"
    /\ UNCHANGED <<calls, delays, output, raised>>
    /\ UNCHANGED retryFrame

\* return func(*args, **kwargs): the call returns, and so does _retry_api_call.
FuncReturns ==
    /\ pc = "call"
    /\ calls' = Append(calls, Success)
    /\ output' = "result"
    /\ pc' = "done"
    /\ UNCHANGED <<attempt, delays, raised>>
    /\ UNCHANGED retryFrame

\* The call raises e: if this is not the last attempt and the message of e
\* holds a keyword, time.sleep(delay) and the next iteration; else raise e.
FuncRaises ==
    /\ pc = "call"
    /\ \E e \in Errors :
           /\ calls' = Append(calls, e)
           /\ IF attempt < max_retries - 1 /\ is_timeout(e)
              THEN /\ delays' = Append(delays, delay(attempt))
                   /\ attempt' = attempt + 1
                   /\ UNCHANGED <<pc, raised>>
              ELSE /\ raised' = e.type
                   /\ pc' = "done"
                   /\ UNCHANGED <<attempt, delays>>
    /\ UNCHANGED output
    /\ UNCHANGED retryFrame

NextRetry ==
    \/ EnterLoop
    \/ FuncReturns
    \/ FuncRaises

SpecRetry == InitRetry /\ [][NextRetry]_vars

\* -------------------------------------------------------- process_directory

\* def process_file(input_file, output_file=None, words_per_chunk=100): the
\* most positional arguments a call may give.
process_file_parameters == 3
\* process_file(vtt_file, output_file, words_per_chunk, words_per_line): the
\* positional arguments the call in process_directory gives.
process_directory_arguments == 4

\* Whether a call with nargs positional arguments binds to a function of
\* nparams parameters; if not, the call raises TypeError before the body runs.
CallBinds(nargs, nparams) == nargs <= nparams

\* name.endswith(suffix)
EndsWith(name, suffix) ==
    Len(name) >= Len(suffix) /\ Slice(name, Len(name) - Len(suffix), Len(name)) = suffix

\* Whether glob's pattern "*.vtt" matches name: the suffix is there, and the
\* name does not begin with a dot, which '*' does not match.
MatchesVtt(name) == EndsWith(name, ".vtt") /\ At(name, 0) # "."

\* os.path.splitext(base_name)[0]: the name up to its last dot, leading dots
\* not counted.
SplitextRoot(name) ==
    LET dots == {k \in 1..(Len(name) - 1) :
                    At(name, k) = "." /\ \E j \in 0..(k - 1) : At(name, j) # "."}
    IN  IF dots = {} THEN name ELSE Slice(name, 0, SetMax(dots))

\* f"{os.path.splitext(base_name)[0]}_clean.txt"
CleanName(name) == SplitextRoot(name) \o "_clean.txt"

\* The lists that hold every member of S once: glob returns the names in the
\* order of the directory listing, which is arbitrary.
Orderings(S) ==
    {order \in [1..Cardinality(S) -> S] :
        \A j, k \in 1..Cardinality(S) : j # k => order[j] # order[k]}

\* The names a generated input directory is made of.
FileNames == {"a.vtt", "b.vtt", "c.d.vtt", "a.txt", "b.VTT", "vtt", ".h.vtt"}

InitDirectory ==
    /\ pc = "start"
    /\ fn = "process_directory"
    /\ input_dir \in SUBSET FileNames
    /\ vtt_files = <<>>
    /\ written = {}
    /\ calls = <<>>
    /\ delays = <<>>
    /\ PipelineIdle
    /\ words_per_chunk = DefaultWordsPerChunk
    /\ words_per_line = DefaultWordsPerLine
    /\ output = ""
    /\ raised = "none"
    /\ text = ""
    /\ content_blocks = <<>>
    /\ requests = <<>>
    /\ attempt = 0
    /\ i = 0
    /\ words = <<>>
    /\ result = <<>>
    /\ round = 1
    /\ first = ""
    /\ full_text = ""
    /\ formatted = ""

\* What process_directory leaves alone, whatever it does.
directoryFrame ==
    <<text, fn, words, i, result, round, first, words_per_chunk, words_per_line,
      full_text, formatted, content_blocks, requests, attempt, input_dir,
      calls, delays, pipelineVars>>

\* os.makedirs(output_dir, exist_ok=True); vtt_files = glob.glob(...)
ListDirectory ==
    /\ pc = "start"
    /\ fn = "process_directory"
    /\ vtt_files' \in Orderings({name \in input_dir : MatchesVtt(name)})
    /\ pc' = "listed"
    /\ UNCHANGED <<output, raised, written>>
    /\ UNCHANGED directoryFrame

\* if not vtt_files: print(...); return False
ReturnNoFiles ==
    /\ pc = "listed"
    /\ vtt_files = <<>>
    /\ output' = "False"
    /\ pc' = "done"
    /\ UNCHANGED <<raised, written, vtt_files>>
    /\ UNCHANGED directoryFrame

\* The loop over vtt_files and the return after it.  The call of
\* process_file in the first iteration decides: if it does not bind, TypeError
\* leaves process_directory with no file written; if it binds, every file is
\* processed in turn and True is returned.
WalkFiles ==
    /\ pc = "listed"
    /\ vtt_files # <<>>
    /\ IF CallBinds(process_directory_arguments, process_file_parameters)
       THEN /\ written' = written \cup {CleanName(vtt_files[k]) : k \in 1..Len(vtt_files)}
            /\ output' = "True"
            /\ UNCHANGED raised
       ELSE /\ raised' = "TypeError"
            /\ UNCHANGED <<written, output>>
    /\ pc' = "done"
    /\ UNCHANGED vtt_files
    /\ UNCHANGED directoryFrame

NextDirectory ==
    \/ ListDirectory
    \/ ReturnNoFiles
    \/ WalkFiles

SpecDirectory == InitDirectory /\ [][NextDirectory]_vars

\* ------------------------------------ workflow_orchestrator: the three steps

\* Whether glob finds name with "*.vtt" or with "*whisper.txt".
IsTranscript(name) ==
    MatchesVtt(name) \/ (EndsWith(name, "whisper.txt") /\ At(name, 0) # ".")

\* The names in a directory that are no transcripts: what is left when
\* _download_with_script has cleared the old transcript files.
Cleared(dir) == {name \in dir : ~IsTranscript(name)}

\* The files the download script may write: captions, or a transcription.
ScriptFiles == {"v.en.vtt", "v_whisper.txt"}

\* The files the raw directory may hold before a run.
OldFiles == {"old.en.vtt", "old_whisper.txt", "old.json", "notes.txt"}

\* transcript_files[0], where transcript_files = vtt_files + txt_files: a
\* file of captions if there is one, else a transcription; "" if none.
FirstTranscript(dir) ==
    LET vtt == {name \in dir : MatchesVtt(name)}
        txt == {name \in dir : IsTranscript(name)} \ vtt
    IN  IF vtt # {} THEN CHOOSE name \in vtt : TRUE
        ELSE IF txt # {} THEN CHOOSE name \in txt : TRUE
        ELSE ""

\* What a call of _download_with_script may come to, the raw directory being
\* dir: an exception before anything is cleared, caught; the old transcripts
\* cleared and the script ended with a return code other than 0, whatever it
\* wrote; or ended with 0, which is a success if a transcript is there.
DownloadOutcomes(dir) ==
    {[success |-> FALSE, file |-> "", raw_dir |-> dir]}
    \cup {[success |-> FALSE, file |-> "", raw_dir |-> Cleared(dir) \cup wrote] :
              wrote \in SUBSET ScriptFiles}
    \cup {[success |-> wrote # {},
           file |-> FirstTranscript(Cleared(dir) \cup wrote),
           raw_dir |-> Cleared(dir) \cup wrote] : wrote \in SUBSET ScriptFiles}

\* What a call of process_file(file, clean_dir / CleanName(file)) may come
\* to: False if the file does not exist; if it does, True with the clean file
\* written, or the exception of open, read or write, which process_file does
\* not catch.
ProcessOutcomes(file, raw, clean) ==
    IF file \notin raw
    THEN {[success |-> FALSE, raised |-> "none", clean_dir |-> clean]}
    ELSE {[success |-> TRUE, raised |-> "none", clean_dir |-> clean \cup {CleanName(file)}],
          [success |-> FALSE, raised |-> "UnicodeDecodeError", clean_dir |-> clean],
          [success |-> FALSE, raised |-> "PermissionError", clean_dir |-> clean]}

\* What NotionIntegration() followed by upload_transcript(clean_file) may
\* come to: ValueError of the constructor if no token is set; else what
\* upload_transcript returns, which is True only if the clean file is there,
\* since it catches every exception and returns False.
UploadOutcomes(clean_file, clean) ==
    {[success |-> FALSE, raised |-> "ValueError"],
     [success |-> FALSE, raised |-> "none"]}
    \cup (IF clean_file \in clean THEN {[success |-> TRUE, raised |-> "none"]} ELSE {})

\* `if not success: return results` that never returns.
ReturnsEarly_Never(success) == FALSE

\* if not success: ...; return results
ReturnsEarly(success) == ~success

InitWorkflow ==
    /\ pc = "start"
    /\ fn = "run_complete_workflow"
    /\ raw_dir \in SUBSET OldFiles
    /\ failed_dir = {}
    /\ clean_dir = {}
    /\ results = NoStepSucceeded
    /\ raw_file = ""
    /\ steps = <<>>
    /\ session_state = InitialSession
    /\ panel = NoPanel
    /\ output = ""
    /\ raised = "none"
    /\ text = ""
    /\ content_blocks = <<>>
    /\ requests = <<>>
    /\ attempt = 0
    /\ calls = <<>>
    /\ delays = <<>>
    /\ input_dir = {}
    /\ vtt_files = <<>>
    /\ written = {}
    /\ i = 0
    /\ words = <<>>
    /\ result = <<>>
    /\ round = 1
    /\ first = ""
    /\ words_per_chunk = 0
    /\ words_per_line = 0
    /\ full_text = ""
    /\ formatted = ""

\* What run_complete_workflow leaves alone, whatever it does.
workflowFrame ==
    <<text, fn, words, i, result, round, first, words_per_chunk, words_per_line,
      full_text, formatted, content_blocks, requests, attempt, calls, delays,
      input_dir, vtt_files, written, session_state, panel>>

\* Step 1: results is set up, _download_with_script is called and its outcome
\* recorded; `if not success: return results`.
WorkflowDownload ==
    /\ pc = "start"
    /\ fn = "run_complete_workflow"
    /\ steps' = Append(steps, "download")
    /\ \E outcome \in DownloadOutcomes(raw_dir) :
           /\ raw_dir' = outcome.raw_dir
           /\ raw_file' = outcome.file
           /\ results' = [NoStepSucceeded EXCEPT !.download = outcome.success]
           /\ IF ReturnsEarly(outcome.success)
              THEN pc' = "done" /\ output' = "results"
              ELSE pc' = "downloaded" /\ UNCHANGED output
    /\ UNCHANGED <<raised, failed_dir, clean_dir>>
    /\ UNCHANGED workflowFrame

\* Between the two steps another run, of the command line or of another
\* session of the web interface, calls _download_with_script, which clears
\* the transcripts of the shared raw directory.
RawFileCleared ==
    /\ pc = "downloaded"
    /\ fn = "run_complete_workflow"
    /\ raw_file \in raw_dir
    /\ raw_dir' = Cleared(raw_dir)
    /\ UNCHANGED <<pc, output, raised, failed_dir, clean_dir, results, raw_file, steps>>
    /\ UNCHANGED workflowFrame

\* Step 2: process_file is called; an exception leaves run_complete_workflow;
\* if process_file returns False the raw file is moved to the failed
\* directory, or the exception of shutil.move is caught, and results is
\* returned.
WorkflowProcess ==
    /\ pc = "downloaded"
    /\ fn = "run_complete_workflow"
    /\ steps' = Append(steps, "process")
    /\ \E outcome \in ProcessOutcomes(raw_file, raw_dir, clean_dir) :
           /\ clean_dir' = outcome.clean_dir
           /\ IF outcome.raised # "none"
              THEN /\ raised' = outcome.raised
                   /\ pc' = "done"
                   /\ UNCHANGED <<results, raw_dir, failed_dir, output>>
              ELSE /\ results' = [results EXCEPT !.process = outcome.success]
                   /\ UNCHANGED raised
                   /\ IF ReturnsEarly(outcome.success)
                      THEN /\ IF raw_file \in raw_dir
                              THEN /\ raw_dir' = raw_dir \ {raw_file}
                                   /\ failed_dir' = failed_dir \cup {raw_file}
                              ELSE UNCHANGED <<raw_dir, failed_dir>>
                           /\ pc' = "done"
                           /\ output' = "results"
                      ELSE /\ pc' = "processed"
                           /\ UNCHANGED <<raw_dir, failed_dir, output>>
    /\ UNCHANGED raw_file
    /\ UNCHANGED workflowFrame

\* Step 3: NotionIntegration() and upload_transcript inside try; after a
\* successful upload the raw file is removed if it exists; an exception sets
\* results['upload']['success'] = False; the summary; return results.
WorkflowUpload ==
    /\ pc = "processed"
    /\ fn = "run_complete_workflow"
    /\ steps' = Append(steps, "upload")
    /\ \E outcome \in UploadOutcomes(CleanName(raw_file), clean_dir) :
           /\ results' = [results EXCEPT !.upload = outcome.success]
           /\ raw_dir' = IF outcome.success THEN raw_dir \ {raw_file} ELSE raw_dir
    /\ pc' = "done"
    /\ output' = "results"
    /\ UNCHANGED <<raised, failed_dir, clean_dir, raw_file>>
    /\ UNCHANGED workflowFrame

NextWorkflow ==
    \/ WorkflowDownload
    \/ RawFileCleared
    \/ WorkflowProcess
    \/ WorkflowUpload

SpecWorkflow == InitWorkflow /\ [][NextWorkflow]_vars

\* --------------------------------------- streamlit_app: the step-wise pipeline

\* The URLs the user types: none, and two videos.
URLs == {"", "u", "w"}

\* The raw directories a session of the web interface begins with.
SessionDirectories == {{}, {"old.en.vtt", "old.json"}}

\* st.session_state.get('download_results', {}).get('success', False)
download_succeeded(s) == s.download_results.present /\ s.download_results.success

\* st.session_state.get('process_results', {}).get('success', False)
process_succeeded(s) == s.process_results.present /\ s.process_results.success

\* The first status column.
DownloadColumn(s) ==
    IF s.current_step = "downloading" THEN "Downloading..."
    ELSE IF s.current_step = "error" /\ ~download_succeeded(s) THEN "Download Failed"
    ELSE IF \/ s.current_step \in {"processing", "uploading", "completed"}
            \/ s.current_step = "error" /\ download_succeeded(s)
    THEN "Download Complete"
    ELSE ""

\* The second status column.
ProcessColumn(s) ==
    IF s.current_step = "processing" THEN "Processing..."
    ELSE IF s.current_step = "error" /\ download_succeeded(s) /\ ~process_succeeded(s)
    THEN "Processing Failed"
    ELSE IF \/ s.current_step \in {"uploading", "completed"}
            \/ s.current_step = "error" /\ process_succeeded(s)
    THEN "Processing Complete"
    ELSE ""

\* The third status column.
UploadColumn(s) ==
    IF s.current_step = "uploading" THEN "Uploading..."
    ELSE IF s.current_step = "error" /\ process_succeeded(s) THEN "Upload Failed"
    ELSE IF s.current_step = "completed" THEN "Upload Complete"
    ELSE ""

\* The progress section: shown if processing or results, with its columns.
Panel(s) ==
    IF s.processing \/ s.results.recorded
    THEN <<DownloadColumn(s), ProcessColumn(s), UploadColumn(s)>>
    ELSE NoPanel

\* progress_messages.append(message)
add_progress_message(s, message) ==
    [s EXCEPT !.progress_messages = Append(@, message)]

\* The results recorded with the three successes given.
Recorded(download, process, upload) ==
    [recorded |-> TRUE,
     steps |-> [download |-> download, process |-> process, upload |-> upload]]

\* The end of a run that leaves processing = True.
EndRun_StillProcessing(s, step, res, message) ==
    add_progress_message([s EXCEPT !.results = res, !.current_step = step], message)

\* The end of a run: results recorded, processing = False, current_step set
\* to step, a message added.
EndRun(s, step, res, message) ==
    add_progress_message(
        [s EXCEPT !.results = res, !.processing = FALSE, !.current_step = step],
        message)

\* reset_state(): the keys download_results and process_results are kept.
reset_state(s) ==
    [s EXCEPT !.processing = FALSE,
              !.results = NoResults,
              !.current_step = "None",
              !.progress_messages = <<>>,
              !.youtube_url_value = "",
              !.previous_url = ""]

InitStreamlit ==
    /\ pc = "start"
    /\ fn = "main"
    /\ raw_dir \in SessionDirectories
    /\ failed_dir = {}
    /\ clean_dir = {}
    /\ results = NoStepSucceeded
    /\ raw_file = ""
    /\ steps = <<>>
    /\ session_state = InitialSession
    /\ panel = NoPanel
    /\ output = ""
    /\ raised = "none"
    /\ text = ""
    /\ content_blocks = <<>>
    /\ requests = <<>>
    /\ attempt = 0
    /\ calls = <<>>
    /\ delays = <<>>
    /\ input_dir = {}
    /\ vtt_files = <<>>
    /\ written = {}
    /\ i = 0
    /\ words = <<>>
    /\ result = <<>>
    /\ round = 1
    /\ first = ""
    /\ words_per_chunk = 0
    /\ words_per_line = 0
    /\ full_text = ""
    /\ formatted = ""

\* What main leaves alone, whatever it does.
streamlitFrame ==
    <<pc, output, raised, text, fn, words, i, result, round, first, words_per_chunk,
      words_per_line, full_text, formatted, content_blocks, requests, attempt,
      calls, delays, input_dir, vtt_files, written, failed_dir, results, raw_file>>

\* A run of the script after the user has typed url and pressed Enter or,
\* if button, clicked 'Process Video'; the widgets are disabled while
\* processing.  The run either starts the pipeline and reruns, or goes on to
\* show the status columns.
Submit ==
    /\ fn = "main"
    /\ ~session_state.processing
    /\ \E url \in URLs, process_button \in BOOLEAN :
           LET enter_pressed == url # "" /\ url # session_state.previous_url
               typed == [session_state EXCEPT
                            !.youtube_url_value = url,
                            !.previous_url = IF enter_pressed THEN url ELSE @]
           IN  IF (process_button \/ enter_pressed) /\ url # ""
               THEN /\ session_state' =
                           [typed EXCEPT
                               !.processing = TRUE,
                               !.current_step = "initializing",
                               !.progress_messages =
                                   <<"Starting YouTube to Notion workflow...">>]
                    /\ steps' = <<>>
                    /\ UNCHANGED panel
               ELSE /\ session_state' = typed
                    /\ panel' = Panel(typed)
                    /\ UNCHANGED steps
    /\ UNCHANGED <<raw_dir, clean_dir>>
    /\ UNCHANGED streamlitFrame

\* A run of the script after the user has clicked Stop, which is shown
\* while processing.
Stop ==
    /\ fn = "main"
    /\ session_state.processing
    /\ session_state' =
           add_progress_message(
               [session_state EXCEPT !.processing = FALSE, !.current_step = "None"],
               "Processing stopped by user")
    /\ UNCHANGED <<raw_dir, clean_dir, steps, panel>>
    /\ UNCHANGED streamlitFrame

\* The rerun with current_step == "initializing".
StepInitializing ==
    /\ fn = "main"
    /\ session_state.processing
    /\ session_state.current_step = "initializing"
    /\ session_state' =
           [session_state EXCEPT
               !.current_step = "downloading",
               !.progress_messages =
                   <<"Starting YouTube to Notion workflow...",
                     "Downloading transcript from YouTube...">>]
    /\ UNCHANGED <<raw_dir, clean_dir, steps, panel>>
    /\ UNCHANGED streamlitFrame

\* The rerun with current_step == "downloading": TranscriptWorkflow(), which
\* may raise, and _download_with_script.
StepDownloading ==
    /\ fn = "main"
    /\ session_state.processing
    /\ session_state.current_step = "downloading"
    /\ \/ \E outcome \in DownloadOutcomes(raw_dir) :
              /\ raw_dir' = outcome.raw_dir
              /\ steps' = Append(steps, "download")
              /\ LET got == [session_state EXCEPT
                                !.download_results =
                                    [present |-> TRUE, success |-> outcome.success,
                                     file |-> IF outcome.success THEN outcome.file ELSE ""]]
                 IN  session_state' =
                         IF outcome.success
                         THEN add_progress_message(
                                  add_progress_message(
                                      [got EXCEPT !.current_step = "processing"],
                                      "Downloaded: " \o outcome.file),
                                  "Processing transcript...")
                         ELSE EndRun(got, "error", Recorded(FALSE, FALSE, FALSE),
                                     "Failed to download transcript")
       \/ /\ session_state' =
                 EndRun([session_state EXCEPT
                            !.download_results =
                                [present |-> TRUE, success |-> FALSE, file |-> ""]],
                        "error", Recorded(FALSE, FALSE, FALSE), "Error: PermissionError")
          /\ UNCHANGED <<raw_dir, steps>>
    /\ UNCHANGED <<clean_dir, panel>>
    /\ UNCHANGED streamlitFrame

\* Before the rerun that processes, another session calls
\* _download_with_script, which clears the transcripts of the raw directory.
OtherSessionClears ==
    /\ fn = "main"
    /\ session_state.processing
    /\ session_state.current_step = "processing"
    /\ session_state.download_results.file \in raw_dir
    /\ raw_dir' = Cleared(raw_dir)
    /\ UNCHANGED <<session_state, clean_dir, steps, panel>>
    /\ UNCHANGED streamlitFrame

\* The rerun with current_step == "processing": process_file on the file of
\* download_results; False and an exception end the run alike.
StepProcessing ==
    /\ fn = "main"
    /\ session_state.processing
    /\ session_state.current_step = "processing"
    /\ steps' = Append(steps, "process")
    /\ \E outcome \in ProcessOutcomes(session_state.download_results.file,
                                       raw_dir, clean_dir) :
           /\ clean_dir' = outcome.clean_dir
           /\ session_state' =
                  IF outcome.success
                  THEN add_progress_message(
                           add_progress_message(
                               [session_state EXCEPT
                                   !.process_results =
                                       [present |-> TRUE, success |-> TRUE,
                                        clean_file |->
                                            CleanName(session_state.download_results.file)],
                                   !.current_step = "uploading"],
                               "Processed transcript: "
                                   \o CleanName(session_state.download_results.file)),
                           "Uploading to Notion...")
                  ELSE EndRun([session_state EXCEPT
                                  !.process_results =
                                      [present |-> TRUE, success |-> FALSE,
                                       clean_file |-> ""]],
                              "error",
                              Recorded(session_state.download_results.success, FALSE, FALSE),
                              IF outcome.raised = "none"
                              THEN "Failed to process transcript"
                              ELSE "Error: " \o outcome.raised)
    /\ UNCHANGED <<raw_dir, panel>>
    /\ UNCHANGED streamlitFrame

\* The rerun with current_step == "uploading": NotionIntegration(), which
\* may raise, and upload_transcript; what it returns, True or False, ends
\* the run with current_step = "completed".
StepUploading ==
    /\ fn = "main"
    /\ session_state.processing
    /\ session_state.current_step = "uploading"
    /\ steps' = Append(steps, "upload")
    /\ \E outcome \in UploadOutcomes(session_state.process_results.clean_file, clean_dir) :
           session_state' =
               IF outcome.raised # "none"
               THEN EndRun(session_state, "error",
                           Recorded(session_state.download_results.success,
                                    session_state.process_results.success, FALSE),
                           "Error: " \o outcome.raised)
               ELSE add_progress_message(
                        EndRun(session_state, "completed",
                               Recorded(session_state.download_results.success,
                                        session_state.process_results.success,
                                        outcome.success),
                               IF outcome.success THEN "Uploaded to Notion: page_url"
                               ELSE "Failed to upload to Notion"),
                        IF outcome.success THEN "Workflow completed successfully!"
                        ELSE "Workflow completed with some failures")
    /\ UNCHANGED <<raw_dir, clean_dir, panel>>
    /\ UNCHANGED streamlitFrame

\* The rerun with no step to run: the script goes on to the progress section
\* and shows the status columns.
Render ==
    /\ fn = "main"
    /\ ~session_state.processing
    /\ panel # Panel(session_state)
    /\ panel' = Panel(session_state)
    /\ UNCHANGED <<session_state, raw_dir, clean_dir, steps>>
    /\ UNCHANGED streamlitFrame

\* A run of the script after the user has clicked 'Process Another Video',
\* which is shown with the results, below the status columns.
ProcessAnother ==
    /\ fn = "main"
    /\ session_state.results.recorded
    /\ ~session_state.processing
    /\ panel' = Panel(session_state)
    /\ session_state' = reset_state(session_state)
    /\ UNCHANGED <<raw_dir, clean_dir, steps>>
    /\ UNCHANGED streamlitFrame

\* The reruns the script asks for itself with st.rerun() while processing.
Rerun ==
    \/ StepInitializing
    \/ StepDownloading
    \/ StepProcessing
    \/ StepUploading

NextStreamlit ==
    \/ Submit
    \/ Stop
    \/ Rerun
    \/ OtherSessionClears
    \/ Render
    \/ ProcessAnother

SpecStreamlit == InitStreamlit /\ [][NextStreamlit]_vars

\* st.rerun() is followed by a run of the script: a step that is due is run.
SpecStreamlitFair == SpecStreamlit /\ WF_vars(Rerun)

\* ------------------------------------------- claims on repetition collapse

\* The word-level loop of the application under way has ended.
WordPassOver ==
    \/ pc \in {"sentences", "done"}
    \/ pc = "scan" /\ i >= Len(words)

\* Positions p and lengths L, 3 <= L <= 14, with ws[p:p+L] = ws[p+L:p+2L].
HasStutter(ws) ==
    \E L \in 3..14 : \E p \in 0..Len(ws) :
        /\ p + 2 * L <= Len(ws)
        /\ Slice(ws, p, p + L) = Slice(ws, p + L, p + 2 * L)

\* The pieces of re.split(r'[.!?]+', s), each trimmed.
TrimmedSentences(s) ==
    LET pieces == SplitSentences(s)
    IN  [k \in 1..Len(pieces) |-> Strip(pieces[k])]

\* The 1-based position of the first occurrence of x in lst.
FirstIndex(x, lst) ==
    CHOOSE k \in 1..Len(lst) : lst[k] = x /\ \A m \in 1..(k - 1) : lst[m] # x

\* k copies of the word w, joined by single spaces.
Run(w, k) == Join(" ", [j \in 1..k |-> w])

\* C1: repetition collapse is idempotent: applying remove_repetitive_phrases
\* to its own output returns that output unchanged.
C1_Idempotent ==
    (pc = "done" /\ round = 2) => output = first

\* C2: the word sequence of the output holds no phrase of 3 to 14 words
\* immediately followed by a copy of itself.
C2_NoImmediateStutter ==
    pc = "done" => ~HasStutter(Split(output))

\* C3: split on runs of terminators and trimmed, the output gives non-empty
\* sentences, pairwise distinct, in the order of their first occurrence in
\* the word-collapsed text; only the piece after the last terminator is empty.
C3_SentencesUnique ==
    pc = "done" =>
        LET s == TrimmedSentences(output)
            n == Len(s)
            src == TrimmedSentences(Join(" ", result))
        IN  /\ s[n] = ""
            /\ \A k \in 1..(n - 1) : s[k] # ""
            /\ \A j, k \in 1..(n - 1) : j # k => s[j] # s[k]
            /\ \A k \in 1..(n - 1) : InList(s[k], src)
            /\ \A j, k \in 1..(n - 1) :
                   j < k => FirstIndex(s[j], src) < FirstIndex(s[k], src)
            /\ \A m \in 1..Len(src) : src[m] # "" => InList(src[m], SubSeq(s, 1, n - 1))

\* C3 witness: a returned text of two or more sentences from which a repeated
\* sentence of the collapsed text was dropped.
C3_Witness ==
    /\ pc = "done"
    /\ Len(UniqueSentences(result)) >= 2
    /\ LET src == TrimmedSentences(Join(" ", result))
       IN  \E j, k \in 1..Len(src) : j < k /\ src[j] # "" /\ src[j] = src[k]

\* C9 as stated: the six words of "test test test test test test" all come
\* back, followed by a period.
C9_SixTestsKept ==
    (pc = "done" /\ round = 1 /\ text = TestText)
        => output = "test test test test test test."

\* C9 as amended: a run of one word is collapsed only as a phrase of at least
\* 3 words: up to five copies come back whole with a period, and the six
\* copies of "test" come back as the three of "test test test.".
C9_SingleWordRuns ==
    (pc = "done" /\ round = 1) =>
        /\ \A w \in {"a", "b"} : \A k \in 1..(2 * min_phrase_length - 1) :
               text = Run(w, k) => output = Run(w, k) \o "."
        /\ text = TestText => output = "test test test."

\* C9 witness: the call on the six copies of "test" has returned.
C9_Witness ==
    pc = "done" /\ round = 1 /\ text = TestText /\ Len(words) = 6 /\ Len(result) = 3

\* C10 as stated: an input of fewer than 2 * min_phrase_length + 1 words
\* leaves the word-level loop with every word emitted, in order.
C10_FewerThanSevenKept ==
    (WordPassOver /\ round = 1 /\ Len(words) < 2 * min_phrase_length + 1)
        => result = words

\* C10 as amended: the same of an input of fewer than 2 * min_phrase_length
\* words.
C10_FewerThanSixKept ==
    (WordPassOver /\ round = 1 /\ Len(words) < 2 * min_phrase_length)
        => result = words

\* C10 witness: the loop has ended on five copies of one word.
C10_Witness ==
    /\ WordPassOver
    /\ round = 1
    /\ Len(words) = 2 * min_phrase_length - 1
    /\ \A k \in 1..Len(words) : words[k] = words[1]
    /\ result = words

\* The number of copies of ws[at:at+L] that follow one another from `at` on.
RepeatCount(ws, at, L) ==
    SetMax({r \in 1..(Len(ws) \div L) :
               /\ at + r * L <= Len(ws)
               /\ \A c \in 1..(r - 1) :
                      Slice(ws, at + c * L, at + (c + 1) * L) = Slice(ws, at, at + L)})

\* The phrase lengths L in 3..min(14, n - at - 1) with two copies or more.
Candidates(ws, at) ==
    {L \in 3..Min2(14, Len(ws) - at - 1) : RepeatCount(ws, at, L) >= 2}

\* C18: every step of the scan at a cursor i < n takes the longest L of 3 to
\* min(14, n - i - 1) whose phrase W[i..i+L) is repeated R >= 2 times from i
\* on, emits one copy and moves the cursor by L * R; if there is no such L it
\* emits W[i] and moves the cursor by 1, or, when no more than 3 words are
\* left, so that there is no such L for any of them, emits them all at once
\* and ends the scan.
C18_LongestPhraseWins ==
    [][(pc = "scan" /\ i < Len(words)) =>
          LET lengths == Candidates(words, i)
              L == SetMax(lengths)
              R == RepeatCount(words, i, L)
          IN  IF lengths # {}
              THEN /\ result' = result \o Slice(words, i, i + L)
                   /\ i' = i + L * R
                   /\ pc' = "scan"
              ELSE \/ /\ result' = Append(result, words[i + 1])
                      /\ i' = i + 1
                      /\ pc' = "scan"
                   \/ /\ Len(words) - i <= 3
                      /\ result' = result \o Slice(words, i, Len(words))
                      /\ pc' = "sentences"]_vars

\* C18 witness: the scan has taken, at cursor 0 of twelve words, the longer of
\* two repeated phrases: six words emitted, twelve passed.
C18_Witness ==
    /\ pc = "scan"
    /\ round = 1
    /\ Len(words) = 12
    /\ Cardinality(Candidates(words, 0)) = 2
    /\ i = 12
    /\ Len(result) = 6

\* The sentences of s as written: each piece between runs of terminators,
\* trimmed, with the run of terminators that ends it.
WrittenSentences(s) ==
    LET starts == RunStarts(s, Terminators)
        bodies == TrimmedSentences(s)
    IN  [j \in 1..Len(bodies) |->
            bodies[j] \o (IF j <= Cardinality(starts)
                          THEN Slice(s, Nth(starts, j), RunEnd(s, Terminators, Nth(starts, j)))
                          ELSE "")]

\* s without its punctuation marks.
Unpunctuated(s) == Join("", Pieces(s, Terminators \cup {",", ";", ":"}))

\* Two different sentences that are the same but for letter case, or the same
\* but for punctuation.
NearDuplicates(a, b) ==
    /\ a # b
    /\ Unpunctuated(a) # ""
    /\ EqualsIgnoreCase(a, b) \/ Unpunctuated(a) = Unpunctuated(b)

\* C19: when the word-level pass has removed nothing, two sentences of the
\* input that differ only in letter case or only in punctuation both come
\* back: each has a sentence of its own in the output.
C19_NearDuplicatesKept ==
    (pc = "done" /\ round = 1 /\ result = words) =>
        LET sentences == WrittenSentences(text)
            bodies == TrimmedSentences(text)
            out == TrimmedSentences(output)
        IN  \A j, k \in 1..Len(sentences) :
                (j < k /\ NearDuplicates(sentences[j], sentences[k])) =>
                    \E p, q \in 1..Len(out) :
                        p # q /\ out[p] = bodies[j] /\ out[q] = bodies[k]

\* ws holds no phrase, of any length, immediately followed by a copy of
\* itself.
NoImmediateRepeat(ws) ==
    \A L \in 1..(Len(ws) \div 2) : \A p \in 0..(Len(ws) - 2 * L) :
        Slice(ws, p, p + L) # Slice(ws, p + L, p + 2 * L)

\* The words ws, each without its terminators.
Bare(ws) == [k \in 1..Len(ws) |-> Join("", Pieces(ws[k], Terminators))]

\* C20: in an input with no immediate repetition at all, a phrase that occurs
\* twice, with at least one other word between the two occurrences, occurs
\* twice in the output as well (terminators apart, which the output rewrites).
C20_SeparatedRepeatsKept ==
    (pc = "done" /\ round = 1 /\ NoImmediateRepeat(words)) =>
        LET out == Bare(Split(output))
        IN  \A L \in 1..Len(words) : \A p, q \in 0..Len(words) :
                (/\ p + L < q
                 /\ q + L <= Len(words)
                 /\ Slice(words, p, p + L) = Slice(words, q, q + L))
                => \E a, b \in 0..Len(out) :
                       /\ a + L <= b
                       /\ b + L <= Len(out)
                       /\ Slice(out, a, a + L) = Bare(Slice(words, p, p + L))
                       /\ Slice(out, b, b + L) = Bare(Slice(words, q, q + L))

\* ------------------------------------------------- claims on the formatters

RECURSIVE SplitOn(_, _)
\* s.split(sep) for a separator string: the pieces between its occurrences.
SplitOn(s, sep) ==
    LET found == {k \in 0..(Len(s) - Len(sep)) : Slice(s, k, k + Len(sep)) = sep}
    IN  IF found = {} THEN <<s>>
        ELSE <<Slice(s, 0, SetMin(found))>>
             \o SplitOn(Slice(s, SetMin(found) + Len(sep), Len(s)), sep)

\* The least number of parts of at most `size` that hold n.
CeilDiv(n, size) == (n + size - 1) \div size

\* The chunks of a formatted text, and the lines of a chunk.
ChunksOf(s) == SplitOn(s, "\n\n")
LinesOf(chunk) == SplitOn(chunk, "\n")

\* The characters of a chunk, its line breaks not counted.
ChunkChars(chunk) == Len(chunk) - CountIn(chunk, {"\n"})

\* The non-whitespace characters of s, in order.
Solid(s) == Join("", Split(s))

\* A call of f with sizes of at least 1 has ended.
SizedCallDone(f) ==
    pc = "done" /\ fn = f /\ words_per_chunk >= 1 /\ words_per_line >= 1

\* C4: word mode cuts the words into chunks of exactly words_per_chunk words
\* (the last may be shorter) and each chunk into lines of exactly
\* words_per_line words (the last of a chunk may be shorter), words joined by
\* a space, lines by a line break, chunks by a blank line.
C4_WordModePartition ==
    SizedCallDone("format_text_english") =>
        /\ raised = "none"
        /\ LET ws == Split(text)
               n == Len(ws)
               chunks == ChunksOf(output)
               nc == Len(chunks)
           IN  IF n = 0 THEN output = ""
               ELSE /\ nc = CeilDiv(n, words_per_chunk)
                    /\ \A c \in 1..nc :
                         LET base == (c - 1) * words_per_chunk
                             size == IF c < nc THEN words_per_chunk ELSE n - base
                             lines == LinesOf(chunks[c])
                             nl == Len(lines)
                         IN  /\ nl = CeilDiv(size, words_per_line)
                             /\ \A l \in 1..nl :
                                  LET from == base + (l - 1) * words_per_line
                                      count == IF l < nl THEN words_per_line
                                               ELSE size - (l - 1) * words_per_line
                                  IN  SplitOn(lines[l], " ") = Slice(ws, from, from + count)
        /\ (text = "a b c d e" /\ words_per_chunk = 2 /\ words_per_line = 1)
               => output = "a\nb\n\nc\nd\n\ne"

\* C4 witness: "a b c d e" formatted with chunks of 2 words and lines of 1.
C4_Witness ==
    /\ SizedCallDone("format_text_english")
    /\ text = "a b c d e"
    /\ words_per_chunk = 2
    /\ words_per_line = 1
    /\ Len(ChunksOf(output)) = 3

\* C7: every call of a formatter, the sizes 0 included, returns a string and
\* raises nothing.
C7_FormatterTotal ==
    (pc = "done" /\ fn \in FormatFunctions) => raised = "none"

\* C8 as stated: character mode with chunk size c and line size l gives
\* chunks of at most c characters and lines of at most l, and three chunks
\* for 120 ideographs with c = 50 and l = 10.
C8_ChunksOfC ==
    SizedCallDone("format_text_chinese") =>
        /\ raised = "none"
        /\ \A c \in 1..Len(ChunksOf(output)) :
               /\ ChunkChars(ChunksOf(output)[c]) <= words_per_chunk
               /\ \A l \in 1..Len(LinesOf(ChunksOf(output)[c])) :
                      Len(LinesOf(ChunksOf(output)[c])[l]) <= words_per_line
        /\ (text = ChineseScenario.text /\ words_per_chunk = 50 /\ words_per_line = 10)
               => Len(ChunksOf(output)) = 3

\* C8 as amended: character mode cuts the whitespace-normalised text at fixed
\* offsets into runs of 6 * c characters and each run into lines of l
\* characters, trims the lines and drops the blank ones: a chunk has at most
\* 6 * c characters, a line at most l, the characters other than whitespace
\* are kept in order, and a text without whitespace is cut exactly (only the
\* last chunk and the last line of a chunk are shorter).  120 ideographs with
\* c = 50 and l = 10 give one chunk of 12 lines of 10.
C8_ChunksOfSixC ==
    SizedCallDone("format_text_chinese") =>
        LET chunks == ChunksOf(output)
            nc == Len(chunks)
            width == 6 * words_per_chunk
            n == Len(text)
        IN  /\ raised = "none"
            /\ Solid(output) = Solid(text)
            /\ nc <= IF Solid(text) = "" THEN 1 ELSE CeilDiv(Len(NormalizeWhitespace(text)), width)
            /\ \A c \in 1..nc :
                   /\ ChunkChars(chunks[c]) <= width
                   /\ \A l \in 1..Len(LinesOf(chunks[c])) :
                          Len(LinesOf(chunks[c])[l]) <= words_per_line
            /\ (n > 0 /\ CountIn(text, Whitespace) = 0) =>
                   /\ nc = CeilDiv(n, width)
                   /\ \A c \in 1..nc :
                        LET size == IF c < nc THEN width ELSE n - (c - 1) * width
                            lines == LinesOf(chunks[c])
                            nl == Len(lines)
                        IN  /\ ChunkChars(chunks[c]) = size
                            /\ nl = CeilDiv(size, words_per_line)
                            /\ \A l \in 1..nl :
                                 Len(lines[l]) = IF l < nl THEN words_per_line
                                                 ELSE size - (l - 1) * words_per_line
            /\ (text = ChineseScenario.text /\ words_per_chunk = 50 /\ words_per_line = 10)
                   => /\ nc = 1
                      /\ Len(LinesOf(chunks[1])) = 12
                      /\ \A l \in 1..12 : Len(LinesOf(chunks[1])[l]) = 10

\* C8 witness: the 120 ideographs formatted with c = 50 and l = 10.
C8_Witness ==
    /\ SizedCallDone("format_text_chinese")
    /\ text = ChineseScenario.text
    /\ words_per_chunk = 50
    /\ words_per_line = 10
    /\ ChunkChars(output) = 120

\* C15: detect_language returns 'chinese' exactly when the ideographs are
\* strictly more than 30% of the characters of the text that are no space;
\* exactly 30%, and a text of spaces only or of nothing, give 'english'.
C15_DensityThreshold ==
    (pc = "done" /\ fn = "detect_language") =>
        LET ideographs == CountIn(text, CJK)
            nonspace == Len(text) - CountIn(text, {" "})
        IN  /\ raised = "none"
            /\ output \in {"chinese", "english"}
            /\ output = "chinese" <=> 10 * ideographs > 3 * nonspace
            /\ 10 * ideographs = 3 * nonspace => output = "english"
            /\ nonspace = 0 => output = "english"

\* C15 witness: a text with exactly 3 ideographs in 10 characters that are no
\* space, some spaces besides, has been classified.
C15_Witness ==
    /\ pc = "done"
    /\ fn = "detect_language"
    /\ CountIn(text, CJK) = 3
    /\ Len(text) - CountIn(text, {" "}) = 10
    /\ CountIn(text, {" "}) > 0
    /\ output = "english"

\* --------------------------------------------------- claims on extraction

\* The cleaning function has returned.
Cleaned == pc \in {"cleaned", "done"}

\* The text handed to repetition collapse holds nothing but whitespace and
\* sentence terminators.
NothingRemains == CharsOf(full_text) \subseteq (Whitespace \cup Terminators)

\* C5 as stated: the words of format_text(t) are the words of the cleaned
\* text t, in whichever mode.
C5_PureReflow ==
    (pc = "done" /\ raised = "none") => Split(formatted) = Split(output)

\* C5 as amended: in word mode, with a chunk size of at least 1, the words of
\* format_text(t) are the words of the cleaned text t; in character mode,
\* which cuts lines at fixed offsets and so may cut a word in two, the
\* characters other than whitespace are those of t, in order.
C5_ReflowInWordMode ==
    (pc = "done" /\ words_per_chunk >= 1) =>
        /\ raised = "none"
        /\ detect_language(output) = "english" => Split(formatted) = Split(output)
        /\ Solid(formatted) = Solid(output)

\* C5 witness: a cleaned text of several words formatted in word mode, one
\* word to a chunk.
C5_Witness ==
    /\ pc = "done"
    /\ words_per_chunk = 1
    /\ detect_language(output) = "english"
    /\ Len(Split(output)) >= 3
    /\ Len(ChunksOf(formatted)) = Len(Split(output))

\* C6: both cleaning functions return a string and raise nothing, whatever
\* the input; they return the empty string exactly when nothing but
\* whitespace and terminators remains after cleanup, as for the empty input
\* and for inputs made of cues only, and format_text maps that empty string
\* to the empty string.
C6_ExtractionTotal ==
    /\ Cleaned => (output = "" <=> NothingRemains)
    /\ (Cleaned /\ text \in CueOnlyInputs) => output = ""
    /\ (Cleaned /\ fn = "clean_vtt_content" /\ text \in CueOnlyCaptions) => output = ""
    /\ (pc = "cleaned") => raised = "none"
    /\ (pc = "done" /\ output = "" /\ words_per_chunk >= 1)
           => (formatted = "" /\ raised = "none")

\* C6 witness: an input of cues only has gone through cleaning and
\* formatting.
C6_Witness ==
    /\ pc = "done"
    /\ text = "[Music] (applause) LAUGHTER"
    /\ words_per_chunk = DefaultWordsPerChunk
    /\ output = ""
    /\ formatted = ""

\* The timed captions of scenario 1 have been cleaned.
CaptionScenarioCleaned ==
    Cleaned /\ fn = "clean_vtt_content" /\ text = CaptionScenario

\* C11 as stated: the two segments "[Music] Hello hello hello world" and
\* "Hello hello hello world" are cleaned to "Hello world.".
C11_HelloWorld ==
    CaptionScenarioCleaned => output = "Hello world."

\* C11 as amended: the cue goes, the segments are merged into eight words,
\* the 4-word phrase "Hello hello hello world" found twice in a row is kept
\* once, and the three words "Hello hello hello", which are no repeated
\* phrase of 3 words or more, stay: "Hello hello hello world.".
C11_HelloHelloHelloWorld ==
    CaptionScenarioCleaned =>
        /\ full_text = "Hello hello hello world Hello hello hello world"
        /\ output = "Hello hello hello world."

\* C11 witness: the scenario has been cleaned, eight words merged into four.
C11_Witness ==
    /\ CaptionScenarioCleaned
    /\ Len(Split(full_text)) = 8
    /\ Len(Split(output)) = 4

\* s holds the character open and, somewhere after it, the character close.
HasSpan(s, open, close) ==
    \E j, k \in 0..(Len(s) - 1) : j < k /\ At(s, j) = open /\ At(s, k) = close

\* C12: the text either cleaning function returns holds no '[' followed
\* later by a ']' and no '(' followed later by a ')'.
C12_NoDelimitedSpans ==
    Cleaned => ~HasSpan(output, "[", "]") /\ ~HasSpan(output, "(", ")")

\* C13: the text either cleaning function returns holds no whole-word
\* occurrence, in any letter case, of music, applause, laughter, cheering or
\* background noise.
C13_NoCueWords ==
    Cleaned => \A k \in 0..(Len(output) - 1) : CuesAt(output, k) = {}

\* s holds two whitespace characters in a row.
HasWhitespaceRun(s) ==
    \E k \in 0..(Len(s) - 2) : At(s, k) \in Whitespace /\ At(s, k + 1) \in Whitespace

\* C14: the text either cleaning function returns neither begins nor ends
\* with whitespace, and its only whitespace is single spaces between words:
\* no line break, no tab, no two whitespace characters in a row.
C14_SingleSpaces ==
    (Cleaned /\ output # "") =>
        /\ At(output, 0) \notin Whitespace
        /\ At(output, Len(output) - 1) \notin Whitespace
        /\ CountIn(output, Whitespace \ {" "}) = 0
        /\ ~HasWhitespaceRun(output)

\* C14 witness: an input with a tab, line breaks and runs of whitespace has
\* been cleaned to a text of several words and two sentences.
C14_Witness ==
    /\ Cleaned
    /\ CountIn(text, {"\t"}) > 0
    /\ CountIn(text, {"\n"}) > 0
    /\ HasWhitespaceRun(text)
    /\ CountIn(output, {" "}) >= 3
    /\ CountIn(output, Terminators) = 2

\* sub occurs in s.
Contains(s, sub) ==
    \E k \in 0..(Len(s) - Len(sub)) : Slice(s, k, k + Len(sub)) = sub

\* The pairs <<j, k>> of positions of s with an opening delimiter at j, the
\* next closing delimiter of its kind at k, and a line break between them.
CrossLineSpans(s) ==
    {jk \in (0..(Len(s) - 1)) \X (0..(Len(s) - 1)) :
        /\ jk[1] < jk[2]
        /\ \E pair \in {<<"[", "]">>, <<"(", ")">>} :
               /\ At(s, jk[1]) = pair[1]
               /\ At(s, jk[2]) = pair[2]
               /\ \A m \in (jk[1] + 1)..(jk[2] - 1) : At(s, m) # pair[2]
        /\ \E m \in (jk[1] + 1)..(jk[2] - 1) : At(s, m) = "\n"}

\* The spoken words of s: its words other than cue words that are made of
\* word characters only (a timing marker is none).
SpokenWords(s) ==
    LET ws == Split(RemoveCueWords(s, 0))
    IN  {ws[k] : k \in {n \in 1..Len(ws) : CharsOf(ws[n]) \subseteq WordChars}}

\* C21: when an opening '[' or '(' and the next closing ']' or ')' lie on
\* different lines of the input, be it within one segment or in different
\* segments of timed captions, every spoken word between them is in the
\* cleaned text.
C21_CrossLineSpansKept ==
    Cleaned =>
        \A jk \in CrossLineSpans(text) :
            \A w \in SpokenWords(Slice(text, jk[1] + 1, jk[2])) : Contains(output, w)

\* ------------------------------------------------- claims on the page upload

RECURSIVE SentBetween(_, _)
\* The blocks of the requests lo..hi, in the order they were sent.
SentBetween(lo, hi) ==
    IF lo > hi THEN <<>>
    ELSE IF lo = hi THEN requests[lo].children
    ELSE SentBetween(lo, (lo + hi) \div 2) \o SentBetween((lo + hi) \div 2 + 1, hi)

\* No append request made so far has failed.
NoRequestFailed == \A r \in 1..Len(requests) : requests[r].ok

\* C16: every append request carries at least 1 and at most 90 blocks, fewer
\* than the limit of 100; and when the upload has returned with no request
\* failed, the blocks of the requests, one after the other, are exactly the
\* content blocks: each sent once, in its original order.
C16_BatchesOfNinety ==
    /\ batch_size < BlockLimit
    /\ \A r \in 1..Len(requests) :
           /\ Len(requests[r].children) >= 1
           /\ Len(requests[r].children) <= batch_size
    /\ (pc = "done" /\ output = "True" /\ NoRequestFailed)
           => SentBetween(1, Len(requests)) = content_blocks

\* C16 witness: an upload of more than two full batches has returned, every
\* request answered at its first attempt.
C16_Witness ==
    /\ pc = "done"
    /\ fn = "create_page_in_database"
    /\ output = "True"
    /\ NoRequestFailed
    /\ Len(content_blocks) > 2 * batch_size
    /\ Len(requests) = 3
    /\ Len(requests[3].children) < batch_size

\* C23: every paragraph block made by _create_content_blocks holds at most
\* 1900 characters of text, whatever the content.
C23_BlocksWithinBuffer ==
    /\ ParagraphLimit = 1900
    /\ \A k \in 1..Len(content_blocks) :
           content_blocks[k].type = "paragraph"
               => Len(content_blocks[k].content) <= ParagraphLimit

\* --------------------------------------------- claims on _retry_api_call

\* What holds of _retry_api_call whatever makes a failure one to call again
\* after: at most 3 calls, none after a call that returned, a wait of 1
\* second before the second call and of 2 seconds before the third, the
\* result of the call that returned, and the error of the last call raised.
RetryDiscipline ==
    /\ max_retries = 3
    /\ Len(calls) <= max_retries
    /\ \A k \in 1..(Len(calls) - 1) : ~calls[k].ok
    /\ Len(delays) = (IF pc = "done" THEN Len(calls) - 1 ELSE Len(calls))
    /\ delays \in {<<>>, <<1>>, <<1, 2>>}
    /\ pc = "done" =>
           /\ calls # <<>>
           /\ calls[Len(calls)].ok => (output = "result" /\ raised = "none")
           /\ ~calls[Len(calls)].ok => (output = "" /\ raised = calls[Len(calls)].type)

StepOrder == <<"download", "process", "upload">>

\* run_complete_workflow has returned results.
Returned_results == fn = "run_complete_workflow" /\ pc = "done" /\ output = "results"

\* C24: the steps called so far are download, process, upload in that
\* order, each at most once; process is called only after a successful
\* download and upload only after a successful download and process; and in
\* the results returned upload success implies process success, which
\* implies download success.
C24_StepsInOrder ==
    fn = "run_complete_workflow" =>
        /\ Len(steps) <= Len(StepOrder)
        /\ \A k \in 1..Len(steps) : steps[k] = StepOrder[k]
        /\ Len(steps) >= 2 => results.download
        /\ Len(steps) >= 3 => (results.download /\ results.process)
        /\ Returned_results =>
               /\ results.upload => results.process
               /\ results.process => results.download

\* C24 witness: the three steps were called and results is returned with
\* the download and the processing successful and the upload failed.
C24_Witness ==
    /\ Returned_results
    /\ steps = StepOrder
    /\ results = [download |-> TRUE, process |-> TRUE, upload |-> FALSE]

\* C25: when the process step of run_complete_workflow has failed for the
\* raw file that was downloaded, that file is no longer in the raw directory
\* but in the failed directory, and results is returned with
\* process.success = False.
C25_FailedFileMoved ==
    (fn = "run_complete_workflow" /\ pc = "done" /\ steps = <<"download", "process">>) =>
        /\ raw_file \notin raw_dir
        /\ raw_file \in failed_dir
        /\ output = "results"
        /\ ~results.process

\* ------------------------------------------ claims on the web interface

\* A run of the step-wise pipeline has ended with results recorded.
SessionRunEnded ==
    /\ fn = "main"
    /\ ~session_state.processing
    /\ session_state.current_step \in {"completed", "error"}
    /\ session_state.results.recorded

\* C26: for the same outcomes of the steps both pipelines leave the raw file
\* the same: at the end of a run in which it was downloaded and processed,
\* of run_complete_workflow and of the step-wise pipeline of main alike, the
\* raw file is gone from the raw directory if and only if the upload
\* succeeded.
C26_RawFileRemovedIffUploaded ==
    /\ (Returned_results /\ results.process)
           => (raw_file \notin raw_dir <=> results.upload)
    /\ (SessionRunEnded /\ session_state.results.steps.process)
           => (session_state.download_results.file \notin raw_dir
                   <=> session_state.results.steps.upload)

\* What a step of the pipeline that has just run came to: TRUE if it
\* succeeded.  It is read in the state after the step.
StepSucceeded(s, step) ==
    IF step = "download" THEN download_succeeded(s)
    ELSE IF step = "process" THEN process_succeeded(s)
    ELSE s.results.recorded /\ s.results.steps.upload

\* C27: within a run current_step moves along initializing, downloading,
\* processing, uploading, completed only: to processing after a successful
\* download, to uploading after a successful process step; a step that
\* fails moves to error with processing = False and results recorded; and
\* no step is run while processing is False.
C27_StepMachine ==
    [][LET s == session_state
           t == session_state'
       IN  /\ steps' # steps /\ steps' # <<>> => s.processing
           /\ t.current_step # s.current_step =>
                  \/ t.current_step = "initializing" /\ ~s.processing
                  \/ t.current_step = "None"
                  \/ s.current_step = "initializing" /\ t.current_step = "downloading"
                  \/ /\ s.current_step = "downloading"
                     /\ t.current_step = "processing"
                     /\ download_succeeded(t)
                  \/ /\ s.current_step = "processing"
                     /\ t.current_step = "uploading"
                     /\ process_succeeded(t)
                  \/ s.current_step = "uploading" /\ t.current_step = "completed"
                  \/ /\ s.current_step \in {"downloading", "processing", "uploading"}
                     /\ t.current_step = "error"
           /\ (Len(steps') = Len(steps) + 1 /\ ~StepSucceeded(t, steps'[Len(steps')])) =>
                  /\ t.current_step = "error"
                  /\ ~t.processing
                  /\ t.results.recorded]_vars

\* The run was stopped by the user: Stop was the last thing to happen.
StoppedByUser ==
    /\ session_state.current_step = "None"
    /\ session_state.progress_messages # <<>>
    /\ session_state.progress_messages[Len(session_state.progress_messages)]
           = "Processing stopped by user"

\* C28: a run that was started ends: from every state with processing =
\* True, the reruns being run, a state with processing = False is reached,
\* and unless Stop was pressed it has current_step completed or error and
\* results recorded.
C28_RunTerminates ==
    session_state.processing ~>
        /\ ~session_state.processing
        /\ \/ StoppedByUser
           \/ /\ session_state.current_step \in {"completed", "error"}
              /\ session_state.results.recorded

\* C28 witness: a run has gone through the three steps and ended with
\* current_step = completed and the results of a successful upload.
C28_Witness ==
    /\ SessionRunEnded
    /\ steps = StepOrder
    /\ session_state.current_step = "completed"
    /\ session_state.results.steps.upload

\* C29: when the status columns shown are those of the state of the session
\* and the third shows 'Upload Complete', the results recorded have an
\* upload with success = True.
C29_UploadCompleteOnlyIfUploaded ==
    (fn = "main" /\ panel = Panel(session_state) /\ panel[3] = "Upload Complete") =>
        /\ session_state.results.recorded
        /\ session_state.results.steps.upload

\* --------------------------------------------- claims on process_directory

\* C17: process_directory on a directory that holds a file named *.vtt
\* raises nothing, returns True and has written <name>_clean.txt for every
\* such file and nothing else; on a directory that holds none it returns
\* False.
C17_DirectoryProcessed ==
    (pc = "done" /\ fn = "process_directory") =>
        LET named == {name \in input_dir : EndsWith(name, ".vtt")}
        IN  IF named # {}
            THEN /\ raised = "none"
                 /\ output = "True"
                 /\ written = {CleanName(name) : name \in named}
            ELSE /\ raised = "none"
                 /\ output = "False"

====
